---- MODULE Spec2Model ----
(***************************************************************************)
(* Model of the two scraper scripts:                                       *)
(*   Scraping/dist/scrapers/ts/product_scraper.js  (ProductScraper)        *)
(*   Scraping/src/scrapers/ts/example_scraper.ts   (ExampleScraper)        *)
(*                                                                         *)
(* Strings are sequences of characters; a character is a one-element      *)
(* TLA+ string.  Characters outside ASCII are written by name:            *)
(*   "rupee" "euro" "pound" "yen" (currency signs), "star" (filled star), *)
(*   "ostar" (empty star).                                                 *)
(* Prices are counted in cents (parseFloat of a text with at most two     *)
(* decimals times 100), NaN and undefined are the two negative sentinels. *)
(***************************************************************************)
EXTENDS Integers, Sequences, FiniteSets, TLC

VARIABLES
    \* ---- parsePrice ----
    pricePc,         \* "idle" | "input" | "parsed" | "reparsed"
    priceText,       \* argument priceText of parsePrice
    currencySymbol,  \* argument currencySymbol of parsePrice (<<>>: not given)
    price,           \* the Price returned by parsePrice(priceText, currencySymbol)
    reparsed,        \* the Price returned by parsePrice(price.formatted, currencySymbol)
    \* ---- parseRating ----
    ratingPc,        \* "idle" | "input" | "parsed"
    ratingText,      \* argument ratingText of parseRating
    rating,          \* the number returned by parseRating(ratingText)
    \* ---- one run of a scraper script: main() -> run() -> scraper ----
    scraper,         \* "none" | "example" | "product"
    usePuppeteer,    \* run(): the fetch path taken
    pc,              \* position of the run
    browser,         \* this.browser: "null" | "open" (a Browser handle)
    browserProc,     \* the browser process: "none" | "running" | "closed"
    stats,           \* this.stats
    ret,             \* value the try or catch block of the scrape method returns
    scrapeEnd,       \* how the scrape method finished: "no" | "returned" | "threw"
    wrote,           \* saveData has written the data files
    result,          \* the ScraperResult returned by run()
    printed,         \* main() has printed the result JSON
    exitCode,        \* argument of process.exit (NotExited before)
    launchFailed,    \* puppeteer.launch rejected in this run
    fetchFailed,     \* page.goto / axios.get rejected in this run
    saved,           \* saveData: the record it was given and whether a write threw
    warned,          \* saveData has logged a validation warning
    files,           \* the files saveData has written
    \* the rating of the product record (extractRating, scrapeWithCheerio)
    rrPc,            \* "idle", "input": page loaded, "extracted": rating assembled
    fetchPath,       \* "puppeteer" or "cheerio"
    ratingElement,   \* the rating selector finds an element
    ratingValue,     \* its data-rating || content attribute ("" when absent)
    elementText,     \* its trimmed text content
    stars,           \* numbers of full, half and all star elements inside it
    reviewRatings,   \* ratings of the reviews extracted before
    countDigits,     \* digits of the review-count element ("" when none)
    ratingData,      \* the rating of the product record: average and count
    \* the stock fields of the product record
    stockPc,         \* "idle", "input", "status": inStock parsed, "level": both parsed
    stockText,       \* text of the stock element
    inStock,         \* metadata.inStock
    stockLevel,      \* metadata.stockLevel
    \* the description of the record
    descPc,          \* "idle", "input", "stored"
    descScraper,     \* "product" or "example"
    description,     \* the trimmed text of the description / content element
    stored,          \* shortDescription (product) or description (example item)
    \* images and reviews of the product record
    capPc,           \* "idle", "input", "images", "assembled"
    capPath,         \* "puppeteer" or "cheerio"
    maxImagesOption, \* options.maxImages (Undefined when not configured)
    maxReviewsOption,\* options.maxReviews (Undefined when not configured)
    imageElements,   \* the elements the images selector finds
    reviewElements,  \* number of elements the reviews selector finds
    images,          \* number of images of the record
    reviews,         \* number of reviews of the record
    \* the product object of scrapeWithPuppeteer
    prodPc,          \* "idle", "page", "assembled"
    pageFields,      \* what each selector of the configuration gives in the page
    product,         \* the product object
    \* the items of the example scraper
    linkPc,          \* "idle", "page", "extracted"
    linkPath,        \* "puppeteer" or "cheerio"
    linkElements,    \* the href of each element the links selector finds, in order
    maxLinksOption,  \* options.maxLinks (Undefined when not configured)
    scrapedItems,    \* the items the scrape method returns
    \* the rating of one review of the product
    revPc,           \* "idle", "input", "extracted"
    revPath,         \* "puppeteer" or "cheerio"
    reviewElement,   \* the rating element inside the review element
    reviewRating     \* the rating of the review

priceVars == <<pricePc, priceText, currencySymbol, price, reparsed>>
ratingVars == <<ratingPc, ratingText, rating>>
saveVars == <<saved, warned, files>>
runVars == <<scraper, usePuppeteer, pc, browser, browserProc, stats, ret, scrapeEnd,
             wrote, result, printed, exitCode, launchFailed, fetchFailed, saveVars>>
ratingRecVars == <<rrPc, fetchPath, ratingElement, ratingValue, elementText, stars,
                   reviewRatings, countDigits, ratingData>>
stockVars == <<stockPc, stockText, inStock, stockLevel>>
descVars == <<descPc, descScraper, description, stored>>
capVars == <<capPc, capPath, maxImagesOption, maxReviewsOption, imageElements,
             reviewElements, images, reviews>>
productVars == <<prodPc, pageFields, product>>
linkVars == <<linkPc, linkPath, linkElements, maxLinksOption, scrapedItems>>
reviewVars == <<revPc, revPath, reviewElement, reviewRating>>
pageVars == <<productVars, linkVars, reviewVars>>
fieldVars == <<ratingRecVars, stockVars, descVars, capVars, pageVars>>
vars == <<priceVars, ratingVars, runVars, fieldVars>>

-----------------------------------------------------------------------------
(* Bounds of the input domains *)

MaxPriceLen == 4
MaxRatingLen == 4
MaxItems == 3      \* items one scrape returns (main item + link items)
MaxBytes == 2      \* length of the page content
MaxElementTextLen == 2
MaxStockFragments == 3
MaxBlanks == 2         \* blanks inside a description
MaxTail == 3           \* letters after the blanks
MaxPageElements == 3   \* elements a selector finds in the page
MaxPageLinks == 3      \* link elements in the enumerated pages
MaxConfigured == 2     \* configured options.maxImages / maxReviews

-----------------------------------------------------------------------------
(* JavaScript values *)

NaN == 0 - 1
Undefined == 0 - 2
UndefinedStr == <<"undefined">>

USD == <<"U", "S", "D">>
EUR == <<"E", "U", "R">>
GBP == <<"G", "B", "P">>
JPY == <<"J", "P", "Y">>
INR == <<"I", "N", "R">>
RUB == <<"R", "U", "B">>
KRW == <<"K", "R", "W">>
VND == <<"V", "N", "D">>
THB == <<"T", "H", "B">>
UAH == <<"U", "A", "H">>
TRY == <<"T", "R", "Y">>

(* Character classes of the regular expressions *)
Digit == {"0", "1", "2", "3", "4", "5", "6", "7", "8", "9"}
DigitVal(c) ==
    CASE c = "0" -> 0 [] c = "1" -> 1 [] c = "2" -> 2 [] c = "3" -> 3
      [] c = "4" -> 4 [] c = "5" -> 5 [] c = "6" -> 6 [] c = "7" -> 7
      [] c = "8" -> 8 [] c = "9" -> 9
NumChar == Digit \cup {","}                          \* [0-9,]
PriceSymbol == {"rupee", "$", "euro", "pound", "yen"}  \* [₹$€£¥]
Whitespace == {" ", "\n"}                            \* \s
LineTerminator == {"\n"}                             \* what . does not match

(* String.prototype.trim *)
RECURSIVE TrimLeft(_)
TrimLeft(s) ==
    IF s # <<>> /\ Head(s) \in Whitespace THEN TrimLeft(Tail(s)) ELSE s
RECURSIVE TrimRight(_)
TrimRight(s) ==
    IF s # <<>> /\ s[Len(s)] \in Whitespace
    THEN TrimRight(SubSeq(s, 1, Len(s) - 1)) ELSE s
trim(s) == TrimRight(TrimLeft(s))

(* Number of occurrences of character c in s: (s.match(/c/g) || []).length *)
RECURSIVE CountChar(_, _)
CountChar(s, c) ==
    IF s = <<>> THEN 0
    ELSE (IF Head(s) = c THEN 1 ELSE 0) + CountChar(Tail(s), c)

(* Last index of the greedy run of characters of class C that starts at i;  *)
(* i - 1 when s[i] is not in C.                                              *)
RECURSIVE RunEnd(_, _, _)
RunEnd(s, i, C) ==
    IF i <= Len(s) /\ s[i] \in C THEN RunEnd(s, i + 1, C) ELSE i - 1

(* [0-9,]+(\.[0-9]{2})? matched at position i: last index of the match,     *)
(* 0 when there is no match at i.  e is the end of the run of [0-9,].        *)
WithDecimals(s, e) ==
    IF e + 3 <= Len(s) /\ s[e + 1] = "." /\ s[e + 2] \in Digit /\ s[e + 3] \in Digit
    THEN e + 3
    ELSE e
NumberEndOfRun(s, i, e) == IF e < i THEN 0 ELSE WithDecimals(s, e)
NumberEnd(s, i) == NumberEndOfRun(s, i, RunEnd(s, i, NumChar))

NoMatch == [ok |-> FALSE, sym |-> "", num |-> <<>>, end |-> 0]

(* ([₹$€£¥])\s*([0-9,]+(\.[0-9]{2})?) matched at position i: the symbol at i, *)
(* the number from k to e                                                    *)
TokenWithNumber(s, i, k, e) ==
    IF e = 0 THEN NoMatch
    ELSE [ok |-> TRUE, sym |-> s[i], num |-> SubSeq(s, k, e), end |-> e]
TokenFromNumber(s, i, k) == TokenWithNumber(s, i, k, NumberEnd(s, k))
TokenAt(s, i) ==
    IF i > Len(s) \/ s[i] \notin PriceSymbol THEN NoMatch
    ELSE TokenFromNumber(s, i, RunEnd(s, i + 1, Whitespace) + 1)

MinOf(S) == CHOOSE i \in S : \A j \in S : i <= j
MaxOf(S) == CHOOSE i \in S : \A j \in S : i >= j

(* cleanText.match(/([₹$€£¥])\s*([0-9,]+(\.[0-9]{2})?)/): leftmost match *)
FirstToken(s, at) == IF at = {} THEN NoMatch ELSE TokenAt(s, MinOf(at))
PriceMatch(s) == FirstToken(s, {i \in 1..Len(s) : TokenAt(s, i).ok})

(* cleanText.match(/([0-9,]+(\.[0-9]{2})?)/): leftmost match *)
NumberSpan(s, i, e) == [ok |-> TRUE, sym |-> "", num |-> SubSeq(s, i, e), end |-> e]
FirstNumber(s, at) ==
    IF at = {} THEN NoMatch ELSE NumberSpan(s, MinOf(at), NumberEnd(s, MinOf(at)))
NumericMatch(s) == FirstNumber(s, {i \in 1..Len(s) : s[i] \in NumChar})

(* The two-token pattern                                                     *)
(*   /(sym)\s*(num).*(sym)\s*(num)/                                           *)
(* The first token is the leftmost one that has a second token after it on   *)
(* the same line (. does not match a line terminator); .* is greedy, so the  *)
(* second token is the last such one.  e is the end of the first token.      *)
SecondStarts(s, e) ==
    {j \in (e + 1)..Len(s) :
        /\ TokenAt(s, j).ok
        /\ \A k \in (e + 1)..(j - 1) : s[k] \notin LineTerminator}

PairAt(s, first) ==
    [ok |-> TRUE, first |-> first,
     second |-> TokenAt(s, MaxOf(SecondStarts(s, first.end)))]
FirstPair(s, at) ==
    IF at = {} THEN [ok |-> FALSE, first |-> NoMatch, second |-> NoMatch]
    ELSE PairAt(s, TokenAt(s, MinOf(at)))
HasSecond(s, first) == first.ok /\ SecondStarts(s, first.end) # {}
OriginalMatch(s) == FirstPair(s, {i \in 1..Len(s) : HasSecond(s, TokenAt(s, i))})

(* parseFloat(num.replace(/,/g, '')) for num matching [0-9,]+(\.[0-9]{2})?,  *)
(* in cents.  An empty integer part without decimals gives NaN.              *)
RECURSIVE DigitsValue(_)
DigitsValue(ds) ==
    IF ds = <<>> THEN 0
    ELSE 10 * DigitsValue(SubSeq(ds, 1, Len(ds) - 1)) + DigitVal(ds[Len(ds)])

NotComma(c) == c # ","
HasDecimals(num) == Len(num) >= 3 /\ num[Len(num) - 2] = "."
IntegerPart(num) ==
    SelectSeq(IF HasDecimals(num) THEN SubSeq(num, 1, Len(num) - 3) ELSE num, NotComma)
DecimalPart(num) ==
    IF HasDecimals(num)
    THEN 10 * DigitVal(num[Len(num) - 1]) + DigitVal(num[Len(num)])
    ELSE 0
parseFloatCents(num) ==
    IF IntegerPart(num) = <<>> /\ ~HasDecimals(num) THEN NaN
    ELSE 100 * DigitsValue(IntegerPart(num)) + DecimalPart(num)

(* JavaScript a > b on numbers: false when either side is NaN *)
Greater(a, b) == a # NaN /\ b # NaN /\ a > b

(* Math.round(((o - a) / o) * 100) for o > 0: round half up *)
DiscountPercentage(o, a) ==
    IF o = NaN \/ a = NaN THEN NaN
    ELSE (200 * (o - a) + o) \div (2 * o)

getCurrencyCode(symbol) ==
    CASE symbol = "$" -> USD
      [] symbol = "euro" -> EUR
      [] symbol = "pound" -> GBP
      [] symbol = "yen" -> JPY
      [] symbol = "rupee" -> INR
      [] symbol = "ruble" -> RUB
      [] symbol = "won" -> KRW
      [] symbol = "dong" -> VND
      [] symbol = "baht" -> THB
      [] symbol = "hryvnia" -> UAH
      [] symbol = "lira" -> TRY
      [] OTHER -> USD

(* cleanText.includes('$') && (cleanText.match(/\$/g) || []).length > 1 *)
HasDiscount(cleanText) == CountChar(cleanText, "$") > 1

Price(amount, currency, formatted, discounted, originalAmount, originalFormatted, discountPercentage) ==
    [amount |-> amount, currency |-> currency, formatted |-> formatted,
     discounted |-> discounted, originalAmount |-> originalAmount,
     originalFormatted |-> originalFormatted,
     discountPercentage |-> discountPercentage]

Or(a, b) == IF a # <<>> THEN a ELSE b    \* a || b on strings

(* "Extract the current price": amount, currency and formatted from          *)
(* priceMatch, else from numericMatch, else the defaults                     *)
CurrentPrice(cleanText, symbol, priceMatch, numericMatch) ==
    IF priceMatch.ok
    THEN [amount |-> parseFloatCents(priceMatch.num),
          currency |-> getCurrencyCode(priceMatch.sym),
          formatted |-> <<priceMatch.sym>> \o priceMatch.num]
    ELSE IF numericMatch.ok
    THEN [amount |-> parseFloatCents(numericMatch.num),
          currency |-> Or(symbol, USD),
          formatted |-> Or(symbol, <<"$">>) \o numericMatch.num]
    ELSE [amount |-> 0, currency |-> Or(symbol, USD), formatted |-> cleanText]

(* The returned object when originalMatch matched: the higher price is the   *)
(* original one; "Calculate discount percentage" if (originalAmount > 0)     *)
DiscountedPrice(currency, originalAmount, originalFormatted, amount, formatted) ==
    Price(amount, currency, formatted, TRUE, originalAmount, originalFormatted,
          IF Greater(originalAmount, 0) THEN DiscountPercentage(originalAmount, amount)
          ELSE Undefined)

FormatToken(token) == <<token.sym>> \o token.num

(* if (price1 > price2) { ... } else { ... } *)
HigherIsOriginal(currency, price1, formatted1, price2, formatted2) ==
    IF Greater(price1, price2)
    THEN DiscountedPrice(currency, price1, formatted1, price2, formatted2)
    ELSE DiscountedPrice(currency, price2, formatted2, price1, formatted1)

(* "If there's a discount, extract the original price", and the return *)
WithOriginalPrice(current, hasDiscount, originalMatch) ==
    IF hasDiscount /\ originalMatch.ok
    THEN HigherIsOriginal(current.currency,
                          parseFloatCents(originalMatch.first.num),
                          FormatToken(originalMatch.first),
                          parseFloatCents(originalMatch.second.num),
                          FormatToken(originalMatch.second))
    ELSE Price(current.amount, current.currency, current.formatted, hasDiscount,
               Undefined, UndefinedStr, Undefined)

ParseCleanText(cleanText, symbol) ==
    WithOriginalPrice(
        CurrentPrice(cleanText, symbol, PriceMatch(cleanText), NumericMatch(cleanText)),
        HasDiscount(cleanText),
        OriginalMatch(cleanText))

parsePrice(text, symbol) ==
    IF text = <<>>
    THEN Price(0, Or(symbol, USD), <<"$", "0", ".", "0", "0">>, FALSE,
               Undefined, UndefinedStr, Undefined)
    ELSE ParseCleanText(trim(text), symbol)

-----------------------------------------------------------------------------
(* parseRating.  A rating is the fraction num/den (den > 0).                 *)

Rat(n, d) == [num |-> n, den |-> d]

LowDigit == {"0", "1", "2", "3", "4", "5"}   \* [0-5]
FilledMarker == {"star", "*"}
EmptyMarker == {"ostar", "-"}

(* ratingText.match(/([0-9]\.[0-9]|[0-5])/): at the leftmost position where  *)
(* one of the alternatives matches, the first alternative that matches       *)
DecimalAt(s, i) ==
    i + 2 <= Len(s) /\ s[i] \in Digit /\ s[i + 1] = "." /\ s[i + 2] \in Digit
RatingNumericStarts(s) == {i \in 1..Len(s) : DecimalAt(s, i) \/ s[i] \in LowDigit}
RatingNumeric(s) ==
    LET i == CHOOSE i \in RatingNumericStarts(s) : \A j \in RatingNumericStarts(s) : i <= j
    IN IF DecimalAt(s, i) THEN Rat(10 * DigitVal(s[i]) + DigitVal(s[i + 2]), 10)
       ELSE Rat(DigitVal(s[i]), 1)

RECURSIVE CountIn(_, _)
CountIn(s, C) ==
    IF s = <<>> THEN 0
    ELSE (IF Head(s) \in C THEN 1 ELSE 0) + CountIn(Tail(s), C)

(* ratingText.match(/([0-9]+)%/): the leftmost run of digits that ends at a % *)
PercentStarts(s) ==
    {i \in 1..Len(s) :
        /\ s[i] \in Digit
        /\ RunEnd(s, i, Digit) < Len(s)
        /\ s[RunEnd(s, i, Digit) + 1] = "%"}
PercentValue(s) ==
    LET i == CHOOSE i \in PercentStarts(s) : \A j \in PercentStarts(s) : i <= j
    IN DigitsValue(SubSeq(s, i, RunEnd(s, i, Digit)))

(* parseRating with the glyph rule tried before the numeric literal *)
parseRatingGlyphFirst(text) ==
    LET fullStars == CountIn(text, FilledMarker)
        emptyStars == CountIn(text, EmptyMarker)
    IN IF fullStars > 0 \/ emptyStars > 0
       THEN Rat(5 * fullStars, fullStars + emptyStars)
       ELSE IF RatingNumericStarts(text) # {} THEN RatingNumeric(text)
       ELSE IF PercentStarts(text) # {}
            THEN Rat(5 * PercentValue(text), 100)
       ELSE Rat(0, 1)

(* parseRating with the glyph rule dividing by five instead of the markers found *)
parseRatingOutOfFive(text) ==
    LET fullStars == CountIn(text, FilledMarker)
        emptyStars == CountIn(text, EmptyMarker)
    IN IF RatingNumericStarts(text) # {} THEN RatingNumeric(text)
       ELSE IF fullStars > 0 \/ emptyStars > 0
            THEN Rat(5 * fullStars, 5)
       ELSE IF PercentStarts(text) # {}
            THEN Rat(5 * PercentValue(text), 100)
       ELSE Rat(0, 1)

parseRating(text) ==
    LET fullStars == CountIn(text, FilledMarker)
        emptyStars == CountIn(text, EmptyMarker)
    IN IF RatingNumericStarts(text) # {} THEN RatingNumeric(text)
       ELSE IF fullStars > 0 \/ emptyStars > 0
            THEN Rat(5 * fullStars, fullStars + emptyStars)
       ELSE IF PercentStarts(text) # {}
            THEN Rat(5 * PercentValue(text), 100)   \* Math.round(p / 20 * 100) / 100
       ELSE Rat(0, 1)

RatingAlphabet == {"3", "9", ".", "star", "ostar", "*", "-", "%"}

RatingExamples ==
    { <<"star", "star", "star", "ostar", "ostar">>,
      <<"*", "*", "*", "-", "-">>,
      <<"8", "0", "%">>,
      <<"4", ".", "5">>,
      <<"4", ".", "2", "5">>,
      <<"9", ".", "5">> }

NoRating == Rat(0, 1)

-----------------------------------------------------------------------------
(* Price texts and currency hints the parser is run on *)

PriceAlphabet == {"$", "euro", "2", "5", ",", ".", " ", "\n", "x"}

RECURSIVE SeqsUpTo(_, _)
SeqsUpTo(A, n) ==
    IF n = 0 THEN {<<>>}
    ELSE LET shorter == SeqsUpTo(A, n - 1)
         IN shorter \cup {Append(s, c) : s \in shorter, c \in A}

PriceExamples ==
    { <<"$", "5", "0", " ", "$", "2", "5">>,
      <<"$", "2", "5", " ", "$", "5", "0">>,
      <<"$", "5", "0", " ", "$", "5", "0">>,
      <<"$", "5", "0", "\n", "$", "2", "5">>,
      <<"euro", "5", "0", " ", "euro", "2", "5">>,
      <<"euro", "2", "5", " ", "euro", "5", "0">>,
      <<"$", "1", ",", "2", "5", "0", ".", "5", "0">>,
      <<"$", "0", ".", "0", "0">> }

PriceTexts == SeqsUpTo(PriceAlphabet, MaxPriceLen) \cup PriceExamples

CurrencyHints == {<<>>, <<"euro">>, EUR}

NoPrice == Price(0, <<>>, <<>>, FALSE, Undefined, UndefinedStr, Undefined)

RatingTexts == SeqsUpTo(RatingAlphabet, MaxRatingLen) \cup RatingExamples

RatingIdle ==
    /\ ratingPc = "idle"
    /\ ratingText = <<>>
    /\ rating = NoRating

RatingInit ==
    /\ ratingPc = "input"
    /\ ratingText \in RatingTexts
    /\ rating = NoRating

(* rating: this.parseRating(ratingText) *)
ParseRating ==
    /\ ratingPc = "input"
    /\ rating' = parseRating(ratingText)
    /\ ratingPc' = "parsed"
    /\ UNCHANGED <<ratingText, priceVars, runVars, fieldVars>>

RatingNext == ParseRating

PriceIdle ==
    /\ pricePc = "idle"
    /\ priceText = <<>>
    /\ currencySymbol = <<>>
    /\ price = NoPrice
    /\ reparsed = NoPrice

PriceInit ==
    /\ pricePc = "input"
    /\ priceText \in PriceTexts
    /\ currencySymbol \in CurrencyHints
    /\ price = NoPrice
    /\ reparsed = NoPrice

(* const price = this.parsePrice(priceText, options.currency) *)
ParsePrice ==
    /\ pricePc = "input"
    /\ price' = parsePrice(priceText, currencySymbol)
    /\ pricePc' = "parsed"
    /\ UNCHANGED <<priceText, currencySymbol, reparsed, ratingVars, runVars, fieldVars>>

(* the normalizer run again on its own formatted output *)
ReparsePrice ==
    /\ pricePc = "parsed"
    /\ reparsed' = parsePrice(price.formatted, currencySymbol)
    /\ pricePc' = "reparsed"
    /\ UNCHANGED <<priceText, currencySymbol, price, ratingVars, runVars, fieldVars>>

PriceNext == ParsePrice \/ ReparsePrice

-----------------------------------------------------------------------------
(* The rating of the product record: extractRating on the browser path, the  *)
(* rating block of scrapeWithCheerio on the HTTP path                        *)

RatNaN == [num |-> 0, den |-> 0]
IsRatNaN(r) == r.den = 0

RECURSIVE PowerOfTen(_)
PowerOfTen(n) == IF n = 0 THEN 1 ELSE 10 * PowerOfTen(n - 1)

(* parseFloat(s) for s without whitespace, exponent or "Infinity": the       *)
(* longest prefix [-] digits [. digits] or [-] . digits; NaN without one     *)
UnsignedFloat(s, intEnd, fracEnd) ==
    IF intEnd = 0 /\ fracEnd <= 1 THEN RatNaN
    ELSE IF fracEnd > intEnd + 1
         THEN Rat(DigitsValue(SubSeq(s, 1, intEnd)) * PowerOfTen(fracEnd - intEnd - 1)
                      + DigitsValue(SubSeq(s, intEnd + 2, fracEnd)),
                  PowerOfTen(fracEnd - intEnd - 1))
         ELSE Rat(DigitsValue(SubSeq(s, 1, intEnd)), 1)
FractionEnd(s, intEnd) ==
    IF intEnd < Len(s) /\ s[intEnd + 1] = "." THEN RunEnd(s, intEnd + 2, Digit) ELSE intEnd
UnsignedPrefix(s) == UnsignedFloat(s, RunEnd(s, 1, Digit), FractionEnd(s, RunEnd(s, 1, Digit)))
Negated(r) == Rat(0 - r.num, r.den)
parseFloat(s) ==
    IF s # <<>> /\ Head(s) = "-" THEN Negated(UnsignedPrefix(Tail(s)))
    ELSE UnsignedPrefix(s)

(* ratingText.match(/[0-5](\.[0-9])?\/5/) *)
OutOfFiveAt(s, i) ==
    /\ s[i] \in LowDigit
    /\ \/ (i + 2 <= Len(s) /\ s[i + 1] = "/" /\ s[i + 2] = "5")
       \/ (i + 4 <= Len(s) /\ s[i + 1] = "." /\ s[i + 2] \in Digit
              /\ s[i + 3] = "/" /\ s[i + 4] = "5")
MatchesOutOfFive(s) == \E i \in 1..Len(s) : OutOfFiveAt(s, i)
(* ratingText.split('/')[0] *)
RECURSIVE BeforeSlash(_)
BeforeSlash(s) ==
    IF s = <<>> \/ Head(s) = "/" THEN <<>> ELSE <<Head(s)>> \o BeforeSlash(Tail(s))
(* ratingText.match(/[0-9](\.[0-9])?/) *)
MatchesNumber(s) == \E i \in 1..Len(s) : s[i] \in Digit

Stars(full, half, total) == [fullStars |-> full, halfStars |-> half, totalStars |-> total]
(* (fullStars + halfStars * 0.5) / (totalStars / 5), totalStars = length || 5 *)
StarAverage(st) ==
    IF st.fullStars > 0 \/ st.halfStars > 0
    THEN Rat(5 * (2 * st.fullStars + st.halfStars),
             2 * (IF st.totalStars = 0 THEN 5 ELSE st.totalStars))
    ELSE Rat(0, 1)

RECURSIVE Sum(_)
Sum(xs) == IF xs = <<>> THEN 0 ELSE Head(xs) + Sum(Tail(xs))
(* reviews.reduce((sum, review) => sum + review.rating, 0) / reviews.length *)
ReviewAverage(ratings) == Rat(Sum(ratings), Len(ratings))

RatingData(average, count) == [average |-> average, count |-> count]

(* the average found in the page by the callback of page.evaluate *)
PageAverage(hasElement, value, text, st) ==
    IF ~hasElement THEN Rat(0, 1)
    ELSE IF value # <<>> /\ ~IsRatNaN(parseFloat(value)) THEN parseFloat(value)
    ELSE IF MatchesOutOfFive(text) THEN parseFloat(BeforeSlash(text))
    ELSE IF MatchesNumber(text) THEN parseFloat(text)
    ELSE StarAverage(st)
(* countText.match(/\d+/) and parseInt; digits is the matched run *)
PageCount(digits) == IF digits = <<>> THEN 0 ELSE DigitsValue(digits)
IsZero(r) == ~IsRatNaN(r) /\ r.num = 0

WithReviews(average, count, ratings) ==
    RatingData(IF IsZero(average) /\ Len(ratings) > 0 THEN ReviewAverage(ratings) ELSE average,
               IF count = 0 /\ Len(ratings) > 0 THEN Len(ratings) ELSE count)
(* the catch block: page.evaluate rejected *)
RatingFallback(ratings) ==
    IF Len(ratings) > 0 THEN RatingData(ReviewAverage(ratings), Len(ratings))
    ELSE RatingData(Rat(0, 1), 0)
extractRating(evaluated, hasElement, value, text, st, digits, ratings) ==
    IF evaluated
    THEN WithReviews(PageAverage(hasElement, value, text, st), PageCount(digits), ratings)
    ELSE RatingFallback(ratings)

(* scrapeWithCheerio: ratingAverage, ratingCount and the record's rating *)
CheerioAverage(value, text) ==
    IF ~IsRatNaN(parseFloat(value)) THEN parseFloat(value) ELSE parseRating(text)
CheerioRating(value, text, digits, ratings) ==
    RatingData(CheerioAverage(value, text),
               IF PageCount(digits) # 0 THEN PageCount(digits) ELSE Len(ratings))

ElementAlphabet == {"4", "9", ".", "/", "5", "star", "x"}
ElementExamples ==
    { <<"4", ".", "5", "/", "5">>,
      <<"x", "4", ".", "5", "/", "5">>,
      <<"9", "4", ".", "5", "/", "5">>,
      <<"9", ".", "5">> }
ElementTexts == SeqsUpTo(ElementAlphabet, MaxElementTextLen) \cup ElementExamples
AttributeValues ==
    { <<>>, <<"4", ".", "5">>, <<"9">>, <<"-", "1">>, <<"0">>, <<"x">> }
StarCounts == {Stars(0, 0, 0), Stars(3, 1, 5), Stars(6, 0, 0)}
ReviewLists == {<<>>, <<4>>, <<5, 2>>}
CountTexts == {<<>>, <<"0">>, <<"1", "2">>}
NoRatingData == RatingData(Rat(0, 1), 0)

RatingRecIdle ==
    /\ rrPc = "idle"
    /\ fetchPath = "puppeteer"
    /\ ratingElement = FALSE
    /\ ratingValue = <<>>
    /\ elementText = <<>>
    /\ stars = Stars(0, 0, 0)
    /\ reviewRatings = <<>>
    /\ countDigits = <<>>
    /\ ratingData = NoRatingData

RatingRecInit ==
    /\ rrPc = "input"
    /\ fetchPath \in {"puppeteer", "cheerio"}
    /\ ratingElement \in BOOLEAN
    /\ ratingValue \in (IF ratingElement THEN AttributeValues ELSE {<<>>})
    /\ elementText \in (IF ratingElement THEN ElementTexts ELSE {<<>>})
    /\ stars \in (IF ratingElement THEN StarCounts ELSE {Stars(0, 0, 0)})
    /\ reviewRatings \in ReviewLists
    /\ countDigits \in CountTexts
    /\ ratingData = NoRatingData

(* const rating = await this.extractRating(page, selectors.rating, reviews) *)
ExtractRating ==
    /\ rrPc = "input"
    /\ fetchPath = "puppeteer"
    /\ \E evaluated \in BOOLEAN :
          ratingData' = extractRating(evaluated, ratingElement, ratingValue, elementText,
                                      stars, countDigits, reviewRatings)
    /\ rrPc' = "extracted"
    /\ UNCHANGED <<fetchPath, ratingElement, ratingValue, elementText, stars,
                   reviewRatings, countDigits, stockVars, descVars, capVars,
                   priceVars, ratingVars, runVars, pageVars>>

(* scrapeWithCheerio: rating: { average: ratingAverage, count: ... } *)
CheerioExtractRating ==
    /\ rrPc = "input"
    /\ fetchPath = "cheerio"
    /\ ratingData' = CheerioRating(ratingValue, elementText, countDigits, reviewRatings)
    /\ rrPc' = "extracted"
    /\ UNCHANGED <<fetchPath, ratingElement, ratingValue, elementText, stars,
                   reviewRatings, countDigits, stockVars, descVars, capVars,
                   priceVars, ratingVars, runVars, pageVars>>

RatingRecNext == ExtractRating \/ CheerioExtractRating

-----------------------------------------------------------------------------
(* Stock normalizers: parseStockStatus and parseStockLevel                   *)

UpperCase == <<"A", "B", "C", "D", "E", "F", "G", "H", "I", "J", "K", "L", "M", "N", "O", "P", "Q", "R", "S", "T", "U", "V", "W", "X", "Y", "Z">>
LowerCase == <<"a", "b", "c", "d", "e", "f", "g", "h", "i", "j", "k", "l", "m", "n", "o", "p", "q", "r", "s", "t", "u", "v", "w", "x", "y", "z">>
LowerChar(c) ==
    IF \E k \in 1..Len(UpperCase) : UpperCase[k] = c
    THEN LowerCase[CHOOSE k \in 1..Len(UpperCase) : UpperCase[k] = c]
    ELSE c
toLowerCase(s) == [i \in 1..Len(s) |-> LowerChar(s[i])]

(* s.includes(p) *)
includes(s, p) == \E i \in 0..(Len(s) - Len(p)) : SubSeq(s, i + 1, i + Len(p)) = p
IncludesAny(s, indicators) == \E k \in 1..Len(indicators) : includes(s, indicators[k])

outOfStockIndicators ==
    << <<"o", "u", "t", " ", "o", "f", " ", "s", "t", "o", "c", "k">>,
       <<"s", "o", "l", "d", " ", "o", "u", "t">>,
       <<"u", "n", "a", "v", "a", "i", "l", "a", "b", "l", "e">>,
       <<"n", "o", " ", "l", "o", "n", "g", "e", "r", " ", "a", "v", "a", "i", "l", "a", "b", "l", "e">>,
       <<"n", "o", "t", " ", "a", "v", "a", "i", "l", "a", "b", "l", "e">>,
       <<"o", "u", "t", "-", "o", "f", "-", "s", "t", "o", "c", "k">>,
       <<"n", "o", "t", " ", "i", "n", " ", "s", "t", "o", "c", "k">>,
       <<"b", "a", "c", "k", "o", "r", "d", "e", "r", "e", "d">> >>
inStockIndicators ==
    << <<"i", "n", " ", "s", "t", "o", "c", "k">>,
       <<"a", "v", "a", "i", "l", "a", "b", "l", "e">>,
       <<"i", "n", "-", "s", "t", "o", "c", "k">>,
       <<"s", "h", "i", "p", "s">>,
       <<"s", "h", "i", "p", "p", "i", "n", "g">>,
       <<"a", "d", "d", " ", "t", "o", " ", "c", "a", "r", "t">>,
       <<"b", "u", "y", " ", "n", "o", "w">>,
       <<"s", "h", "i", "p">> >>

(* the status with the in-stock list checked before the out-of-stock list *)
StatusInStockFirst(lowercaseText) ==
    IF IncludesAny(lowercaseText, inStockIndicators) THEN TRUE
    ELSE IF IncludesAny(lowercaseText, outOfStockIndicators) THEN FALSE
    ELSE TRUE

StatusOf(lowercaseText) ==
    IF IncludesAny(lowercaseText, outOfStockIndicators) THEN FALSE
    ELSE IF IncludesAny(lowercaseText, inStockIndicators) THEN TRUE
    ELSE TRUE
parseStockStatus(text) ==
    IF text = <<>> THEN TRUE ELSE StatusOf(toLowerCase(text))

(* text.match(/(\d+)\s*(left|available|in stock|item)/i) *)
LevelWords ==
    << <<"l", "e", "f", "t">>,
       <<"a", "v", "a", "i", "l", "a", "b", "l", "e">>,
       <<"i", "n", " ", "s", "t", "o", "c", "k">>,
       <<"i", "t", "e", "m">> >>
WordAt(lowercaseText, i) ==
    \E k \in 1..Len(LevelWords) :
        /\ i + Len(LevelWords[k]) - 1 <= Len(lowercaseText)
        /\ SubSeq(lowercaseText, i, i + Len(LevelWords[k]) - 1) = LevelWords[k]
LevelMatchAt(lowercaseText, i) ==
    /\ lowercaseText[i] \in Digit
    /\ WordAt(lowercaseText,
              RunEnd(lowercaseText, RunEnd(lowercaseText, i, Digit) + 1, Whitespace) + 1)
LevelMatchStarts(lowercaseText) ==
    {i \in 1..Len(lowercaseText) : LevelMatchAt(lowercaseText, i)}
FirstLevelDigits(text, starts) ==
    SubSeq(text, MinOf(starts), RunEnd(text, MinOf(starts), Digit))

StockLevel(kind, n) == [kind |-> kind, n |-> n]
LOW == StockLevel("LOW", 0)
NoStockLevel == StockLevel("undefined", 0)
LevelOf(text, lowercaseText, starts) ==
    IF starts # {} THEN StockLevel("number", DigitsValue(FirstLevelDigits(text, starts)))
    ELSE IF includes(lowercaseText, <<"l", "o", "w", " ", "s", "t", "o", "c", "k">>) \/ includes(lowercaseText, <<"s", "e", "l", "l", "i", "n", "g", " ", "f", "a", "s", "t">>)
         THEN LOW
    ELSE IF includes(lowercaseText, <<"o", "u", "t", " ", "o", "f", " ", "s", "t", "o", "c", "k">>) \/ includes(lowercaseText, <<"s", "o", "l", "d", " ", "o", "u", "t">>)
         THEN StockLevel("number", 0)
    ELSE NoStockLevel
LevelOfLower(text, lowercaseText) ==
    LevelOf(text, lowercaseText, LevelMatchStarts(lowercaseText))
parseStockLevel(text) ==
    IF text = <<>> THEN NoStockLevel ELSE LevelOfLower(text, toLowerCase(text))

StockFragments ==
    { <<"O", "n", "l", "y", " ">>,
      <<"3">>,
      <<"0">>,
      <<"1", "2">>,
      <<" ", "l", "e", "f", "t">>,
      <<" ", "i", "n", " ", "s", "t", "o", "c", "k">>,
      <<"O", "u", "t", " ", "o", "f", " ", "S", "t", "o", "c", "k">>,
      <<"S", "o", "l", "d", " ", "O", "u", "t">>,
      <<"U", "n", "a", "v", "a", "i", "l", "a", "b", "l", "e">>,
      <<"a", "v", "a", "i", "l", "a", "b", "l", "e">>,
      <<"L", "o", "w", " ", "s", "t", "o", "c", "k">>,
      <<"s", "e", "l", "l", "i", "n", "g", " ", "f", "a", "s", "t">>,
      <<" ", "i", "t", "e", "m">> }
RECURSIVE Concatenations(_, _)
Concatenations(F, n) ==
    IF n = 0 THEN {<<>>}
    ELSE LET shorter == Concatenations(F, n - 1)
         IN shorter \cup {s \o f : s \in shorter, f \in F}
StockExamples ==
    { <<"O", "n", "l", "y", " ", "3", " ", "l", "e", "f", "t", " ", "i", "n", " ", "s", "t", "o", "c", "k">>,
      <<"S", "o", "l", "d", " ", "O", "u", "t">>,
      <<"I", "n", " ", "S", "t", "o", "c", "k">>,
      <<"S", "h", "i", "p", "s", " ", "i", "n", " ", "2", " ", "d", "a", "y", "s">> }
StockTexts == Concatenations(StockFragments, MaxStockFragments) \cup StockExamples

StockIdle ==
    /\ stockPc = "idle"
    /\ stockText = <<>>
    /\ inStock = TRUE
    /\ stockLevel = NoStockLevel

StockInit ==
    /\ stockPc = "input"
    /\ stockText \in StockTexts
    /\ inStock = TRUE
    /\ stockLevel = NoStockLevel

(* const inStock = this.parseStockStatus(stockText) *)
ParseStockStatus ==
    /\ stockPc = "input"
    /\ inStock' = parseStockStatus(stockText)
    /\ stockPc' = "status"
    /\ UNCHANGED <<stockText, stockLevel, ratingRecVars, descVars, capVars, priceVars, ratingVars, runVars, pageVars>>

(* metadata: { inStock, stockLevel: this.parseStockLevel(stockText) } *)
ParseStockLevel ==
    /\ stockPc = "status"
    /\ stockLevel' = parseStockLevel(stockText)
    /\ stockPc' = "level"
    /\ UNCHANGED <<stockText, inStock, ratingRecVars, descVars, capVars, priceVars, ratingVars, runVars, pageVars>>

StockNext == ParseStockStatus \/ ParseStockLevel

-----------------------------------------------------------------------------
(* The description stored in a record: shortDescription of the product       *)
(* scraper, description of the example scraper's main item                   *)

DescriptionLimit == 200
Ellipsis == <<".", ".", ".">>
NoContentFound == <<"N", "o", " ", "C", "o", "n", "t", "e", "n", "t", " ", "F", "o", "u", "n", "d">>

(* description.length > 200 ? description.substring(0, 200).trim() + '...'   *)
(*                          : description                                    *)
shortDescription(text) ==
    IF Len(text) > DescriptionLimit
    THEN trim(SubSeq(text, 1, DescriptionLimit)) \o Ellipsis
    ELSE text

(* content ? (content.length > 200 ? content.slice(0, 200) + '...' : content) *)
(*         : 'No Content Found'                                              *)
itemDescription(content) ==
    IF content = <<>> THEN NoContentFound
    ELSE IF Len(content) > DescriptionLimit
         THEN SubSeq(content, 1, DescriptionLimit) \o Ellipsis
         ELSE content

(* Texts of n letters, then w blanks, then m letters; the extracted text is  *)
(* trimmed, so blanks stand between letters only                             *)
Repeat(c, n) == [i \in 1..n |-> c]
TextOf(n, w, m) == Repeat("a", n) \o Repeat(" ", w) \o Repeat("b", m)
LeadLengths == {0, 1} \cup ((DescriptionLimit - MaxBlanks - 1)..(DescriptionLimit + 1))
Descriptions ==
    {TextOf(n, w, m) : n \in LeadLengths, w \in 0..MaxBlanks, m \in 0..MaxTail}
TrimmedDescriptions == {d \in Descriptions : trim(d) = d}

DescriptionIdle ==
    /\ descPc = "idle"
    /\ descScraper = "product"
    /\ description = <<>>
    /\ stored = <<>>

DescriptionInit ==
    /\ descPc = "input"
    /\ descScraper \in {"product", "example"}
    /\ description \in TrimmedDescriptions
    /\ stored = <<>>

(* ProductScraper: const shortDescription = ... *)
ShortDescription ==
    /\ descPc = "input"
    /\ descScraper = "product"
    /\ stored' = shortDescription(description)
    /\ descPc' = "stored"
    /\ UNCHANGED <<descScraper, description, ratingRecVars, stockVars, capVars,
                   priceVars, ratingVars, runVars, pageVars>>

(* ExampleScraper: mainItem.description *)
ItemDescription ==
    /\ descPc = "input"
    /\ descScraper = "example"
    /\ stored' = itemDescription(description)
    /\ descPc' = "stored"
    /\ UNCHANGED <<descScraper, description, ratingRecVars, stockVars, capVars,
                   priceVars, ratingVars, runVars, pageVars>>

DescriptionNext == ShortDescription \/ ItemDescription

-----------------------------------------------------------------------------
(* Images and reviews of the product record and their configured maxima      *)

DefaultMaxImages == 10
DefaultMaxReviews == 5

(* options.maxX || default: undefined and 0 are falsy *)
OrDefault(option, default) == IF option = Undefined \/ option = 0 THEN default ELSE option
(* Array.prototype.slice(0, n) for n >= 0 *)
Slice(s, n) == SubSeq(s, 1, IF n < Len(s) THEN n ELSE Len(s))

IsBox(e) == e = "box"
IsImgOrBox(e) == e \in {"img", "box"}
(* extractImages: number of images pushed for the elements the selector      *)
(* finds: "img" an <img>, "box" a container holding an image, "none" a       *)
(* container without one                                                     *)
ImagesPushed(elements) ==
    IF elements # <<>> /\ Head(elements) = "img" THEN Len(elements)
    ELSE Len(SelectSeq(elements, IsBox))
extractImages(evaluated, elements, maxImages) ==
    IF evaluated THEN ImagesPushed(Slice(elements, maxImages)) ELSE 0
(* scrapeWithCheerio: images *)
CheerioImages(elements, maxImages) == Len(SelectSeq(Slice(elements, maxImages), IsImgOrBox))
(* extractReviews and the reviews loop of scrapeWithCheerio: one review per  *)
(* element of the slice                                                      *)
extractReviews(evaluated, found, maxReviews) ==
    IF evaluated THEN (IF maxReviews < found THEN maxReviews ELSE found) ELSE 0

ImageElements ==
    SeqsUpTo({"img", "box", "none"}, MaxPageElements)
        \cup {Repeat("img", DefaultMaxImages + 1)}
ReviewElements == (0..MaxPageElements) \cup {DefaultMaxReviews + 1}
ConfiguredMaxima == {Undefined} \cup (0..MaxConfigured)

CapsIdle ==
    /\ capPc = "idle"
    /\ capPath = "puppeteer"
    /\ maxImagesOption = Undefined
    /\ maxReviewsOption = Undefined
    /\ imageElements = <<>>
    /\ reviewElements = 0
    /\ images = 0
    /\ reviews = 0

CapsInit ==
    /\ capPc = "input"
    /\ capPath \in {"puppeteer", "cheerio"}
    /\ maxImagesOption \in ConfiguredMaxima
    /\ maxReviewsOption \in ConfiguredMaxima
    /\ imageElements \in ImageElements
    /\ reviewElements \in ReviewElements
    /\ images = 0
    /\ reviews = 0

(* const images = await this.extractImages(page, selectors.images,           *)
(*                                         options.maxImages || 10)          *)
ExtractImages ==
    /\ capPc = "input"
    /\ \/ /\ capPath = "puppeteer"
          /\ \E evaluated \in BOOLEAN :
                images' = extractImages(evaluated, imageElements,
                                        OrDefault(maxImagesOption, DefaultMaxImages))
       \/ /\ capPath = "cheerio"
          /\ images' = CheerioImages(imageElements,
                                     OrDefault(maxImagesOption, DefaultMaxImages))
    /\ capPc' = "images"
    /\ UNCHANGED <<capPath, maxImagesOption, maxReviewsOption, imageElements,
                   reviewElements, reviews, ratingRecVars, stockVars, descVars,
                   priceVars, ratingVars, runVars, pageVars>>

(* const reviews = await this.extractReviews(page, selectors.reviews,        *)
(*                       selectors.rating, options.maxReviews || 5)          *)
ExtractReviews ==
    /\ capPc = "images"
    /\ \E evaluated \in (IF capPath = "puppeteer" THEN BOOLEAN ELSE {TRUE}) :
          reviews' = extractReviews(evaluated, reviewElements,
                                    OrDefault(maxReviewsOption, DefaultMaxReviews))
    /\ capPc' = "assembled"
    /\ UNCHANGED <<capPath, maxImagesOption, maxReviewsOption, imageElements,
                   reviewElements, images, ratingRecVars, stockVars, descVars,
                   priceVars, ratingVars, runVars, pageVars>>

CapsNext == ExtractImages \/ ExtractReviews

-----------------------------------------------------------------------------
(* The product object of scrapeWithPuppeteer, from the fields the selectors  *)
(* of the configuration give in the loaded page.                             *)

(* What page.$(selector) and el.textContent give: no element, a rejected     *)
(* call, or the text of the element                                          *)
NoElement == [kind |-> "none", text |-> <<>>]
Rejected == [kind |-> "rejected", text |-> <<>>]
TextContent(t) == [kind |-> "text", text |-> t]
(* extractText: (textContent || '').trim(); '' without element and in catch  *)
extractText(el) == IF el.kind = "text" THEN trim(el.text) ELSE <<>>

UnknownProduct ==
    <<"U", "n", "k", "n", "o", "w", "n", " ", "P", "r", "o", "d", "u", "c", "t">>
UNKNOWN == <<"U", "N", "K", "N", "O", "W", "N">>
DefaultMaxRelatedProducts == 5

(* extractVariants: the variants found, [] in its catch block *)
extractVariants(evaluated, found) == IF evaluated THEN found ELSE 0
(* extractRelatedProducts: one product per element of the slice that has a   *)
(* title and a url, [] in its catch block                                    *)
extractRelatedProducts(evaluated, found, maxProducts) ==
    IF evaluated THEN (IF maxProducts < found THEN maxProducts ELSE found) ELSE 0
(* the ratings of the reviews extractReviews returns *)
RatingsOfReviews(evaluated, ratings, maxReviews) ==
    IF evaluated THEN Slice(ratings, maxReviews) ELSE <<>>

(* const product = { title: productTitle || 'Unknown Product', ...,          *)
(*                   sku: sku || 'UNKNOWN', ..., metadata: { inStock, ... } } *)
Product(f) ==
    [title |-> Or(extractText(f.title), UnknownProduct),
     sku |-> Or(extractText(f.sku), UNKNOWN),
     description |-> extractText(f.description),
     shortDescription |-> shortDescription(extractText(f.description)),
     price |-> parsePrice(extractText(f.price), <<>>),
     images |-> extractImages(f.images.evaluated, f.images.found, DefaultMaxImages),
     variants |-> extractVariants(f.variants.evaluated, f.variants.found),
     reviews |-> extractReviews(f.reviews.evaluated, Len(f.reviews.ratings),
                                DefaultMaxReviews),
     rating |-> extractRating(f.rating.evaluated, f.rating.hasElement, <<>>,
                              f.rating.text, Stars(0, 0, 0), <<>>,
                              RatingsOfReviews(f.reviews.evaluated, f.reviews.ratings,
                                               DefaultMaxReviews)),
     inStock |-> parseStockStatus(extractText(f.stock)),
     stockLevel |-> parseStockLevel(extractText(f.stock)),
     relatedProducts |-> extractRelatedProducts(f.relatedProducts.evaluated,
                                                f.relatedProducts.found,
                                                DefaultMaxRelatedProducts)]

TitleOutcomes == {NoElement, Rejected, TextContent(<<"T">>), TextContent(<<" ">>)}
SkuOutcomes == {NoElement, Rejected, TextContent(<<"S">>)}
PriceOutcomes ==
    {NoElement, Rejected, TextContent(<<"$", "5">>), TextContent(<<",">>),
     TextContent(<<"x">>)}
StockOutcomes ==
    {NoElement, Rejected, TextContent(<<"S", "o", "l", "d", " ", "O", "u", "t">>),
     TextContent(<<"x">>)}
RatingOutcomes ==
    { [evaluated |-> FALSE, hasElement |-> FALSE, text |-> <<>>],
      [evaluated |-> TRUE, hasElement |-> FALSE, text |-> <<>>],
      [evaluated |-> TRUE, hasElement |-> TRUE, text |-> <<"x">>],
      [evaluated |-> TRUE, hasElement |-> TRUE, text |-> <<"4", ".", "5">>] }
ImageOutcomes ==
    { [evaluated |-> FALSE, found |-> <<"img">>],
      [evaluated |-> TRUE, found |-> <<>>],
      [evaluated |-> TRUE, found |-> <<"img">>] }
ReviewOutcomes ==
    { [evaluated |-> FALSE, ratings |-> <<4>>],
      [evaluated |-> TRUE, ratings |-> <<>>],
      [evaluated |-> TRUE, ratings |-> <<5, 2>>] }
ListOutcomes == {[evaluated |-> FALSE, found |-> 1], [evaluated |-> TRUE, found |-> 1]}
PageFields ==
    [title : TitleOutcomes, sku : SkuOutcomes, description : {TextContent(<<"d">>)},
     price : PriceOutcomes, stock : StockOutcomes, rating : RatingOutcomes,
     images : ImageOutcomes, variants : ListOutcomes, reviews : ReviewOutcomes,
     relatedProducts : ListOutcomes]
NoFields ==
    [title |-> NoElement, sku |-> NoElement, description |-> NoElement,
     price |-> NoElement, stock |-> NoElement,
     rating |-> [evaluated |-> TRUE, hasElement |-> FALSE, text |-> <<>>],
     images |-> [evaluated |-> TRUE, found |-> <<>>],
     variants |-> [evaluated |-> TRUE, found |-> 0],
     reviews |-> [evaluated |-> TRUE, ratings |-> <<>>],
     relatedProducts |-> [evaluated |-> TRUE, found |-> 0]]
NoProduct == [title |-> <<>>]

ProductIdle ==
    /\ prodPc = "idle"
    /\ pageFields = NoFields
    /\ product = NoProduct

ProductInit ==
    /\ prodPc = "page"
    /\ pageFields \in PageFields
    /\ product = NoProduct

(* scrapeWithPuppeteer: "Extract basic product data" up to "Create product   *)
(* object"                                                                   *)
AssembleProduct ==
    /\ prodPc = "page"
    /\ product' = Product(pageFields)
    /\ prodPc' = "assembled"
    /\ UNCHANGED <<pageFields, linkVars, reviewVars, ratingRecVars, stockVars, descVars,
                   capVars, priceVars, ratingVars, runVars>>

ProductNext == AssembleProduct

-----------------------------------------------------------------------------
(* The items of the example scraper: the main item, then one item per link   *)
(* kept, at most maxLinks of them.                                           *)

DefaultMaxLinks == 5
NoHref == <<"null">>          \* getAttribute('href') without the attribute
Http == <<"h", "t", "t", "p">>
Origin == <<"https://example.com">>
startsWith(s, prefix) == Len(s) >= Len(prefix) /\ SubSeq(s, 1, Len(prefix)) = prefix

(* a link that keeps every href that is not empty *)
KeepsNonEmpty(href) == href # NoHref /\ href # <<>>
(* if (href && !href.startsWith('#')) links.push({ url: ..., text: ... }) *)
KeepsLink(href) == href # NoHref /\ href # <<>> /\ ~startsWith(href, <<"#">>)
(* href.startsWith('http') ? href : new URL(href, origin).toString(): an     *)
(* href that is an absolute path resolves to the origin followed by it       *)
LinkUrl(href) == IF startsWith(href, Http) THEN href ELSE Origin \o href
MainItem == [tag |-> "example", url |-> Origin]
LinkItem(href) == [tag |-> "link", url |-> LinkUrl(href)]
LinkItems(kept) == [i \in 1..Len(kept) |-> LinkItem(kept[i])]
(* items.push(mainItem); links.slice(0, maxLinks).forEach(... items.push) *)
Items(hrefs, maxLinks) ==
    <<MainItem>> \o LinkItems(Slice(SelectSeq(hrefs, KeepsLink), maxLinks))

Hrefs ==
    { NoHref, <<>>, <<"#", "a">>, <<"/", "a">>,
      <<"h", "t", "t", "p", ":", "/", "/", "b">> }
LinkLists ==
    SeqsUpTo(Hrefs, MaxPageLinks)
        \cup { Repeat(<<"/", "a">>, DefaultMaxLinks + 1),
               <<<<"/", "a">>, <<"#", "a">>, <<"h", "t", "t", "p", ":", "/", "/", "b">>,
                 <<>>, <<"/", "a">>, <<"/", "a">>, NoHref,
                 <<"h", "t", "t", "p", ":", "/", "/", "b">>, <<"/", "a">>,
                 <<"/", "a">>>> }

LinksIdle ==
    /\ linkPc = "idle"
    /\ linkPath = "puppeteer"
    /\ linkElements = <<>>
    /\ maxLinksOption = Undefined
    /\ scrapedItems = <<>>

LinksInit ==
    /\ linkPc = "page"
    /\ linkPath \in {"puppeteer", "cheerio"}
    /\ linkElements \in LinkLists
    /\ maxLinksOption \in ConfiguredMaxima
    /\ scrapedItems = <<>>

(* scrapeWithPuppeteer: page.evaluate, "Add main item", "Add link items" *)
ExtractLinks ==
    /\ linkPc = "page"
    /\ linkPath = "puppeteer"
    /\ scrapedItems' = Items(linkElements, OrDefault(maxLinksOption, DefaultMaxLinks))
    /\ linkPc' = "extracted"
    /\ UNCHANGED <<linkPath, linkElements, maxLinksOption, productVars, reviewVars,
                   ratingRecVars, stockVars, descVars, capVars, priceVars, ratingVars,
                   runVars>>

(* scrapeWithCheerio: "Extract links", "Add main item", "Add link items" *)
CheerioExtractLinks ==
    /\ linkPc = "page"
    /\ linkPath = "cheerio"
    /\ scrapedItems' = Items(linkElements, OrDefault(maxLinksOption, DefaultMaxLinks))
    /\ linkPc' = "extracted"
    /\ UNCHANGED <<linkPath, linkElements, maxLinksOption, productVars, reviewVars,
                   ratingRecVars, stockVars, descVars, capVars, priceVars, ratingVars,
                   runVars>>

LinksNext == ExtractLinks \/ CheerioExtractLinks

-----------------------------------------------------------------------------
(* The rating of one review: extractReviews (browser) and the reviews loop   *)
(* of scrapeWithCheerio.                                                     *)

(* Math.max(0, Math.min(5, rating)): NaN stays NaN *)
Clamp(r) ==
    IF IsRatNaN(r) THEN RatNaN
    ELSE IF r.num < 0 THEN Rat(0, 1)
    ELSE IF r.num > 5 * r.den THEN Rat(5, 1)
    ELSE r
(* extractReviews: "Extract rating", before the clamp *)
ExtractedReviewRating(el) ==
    IF ~el.present THEN Rat(0, 1)
    ELSE IF el.value # <<>> /\ ~IsRatNaN(parseFloat(el.value)) THEN parseFloat(el.value)
    ELSE IF MatchesOutOfFive(el.text) THEN parseFloat(BeforeSlash(el.text))
    ELSE IF MatchesNumber(el.text) THEN parseFloat(el.text)
    ELSE StarAverage(el.stars)
(* extractReviews: the rating pushed with the review *)
ReviewRating(el) == Clamp(ExtractedReviewRating(el))

RatingElement(present, value, text, st) ==
    [present |-> present, value |-> value, text |-> text, stars |-> st]
NoRatingElement == RatingElement(FALSE, <<>>, <<>>, Stars(0, 0, 0))
ReviewRatingElements ==
    {NoRatingElement}
        \cup {RatingElement(TRUE, v, t, st) :
                 v \in AttributeValues, t \in ElementTexts, st \in StarCounts}
CheerioRatingElements ==
    {NoRatingElement}
        \cup {RatingElement(TRUE, <<>>, t, Stars(0, 0, 0)) : t \in ElementTexts}

ReviewIdle ==
    /\ revPc = "idle"
    /\ revPath = "puppeteer"
    /\ reviewElement = NoRatingElement
    /\ reviewRating = Rat(0, 1)

ReviewInit ==
    /\ revPc = "input"
    /\ revPath \in {"puppeteer", "cheerio"}
    /\ reviewElement \in (IF revPath = "puppeteer" THEN ReviewRatingElements
                                                   ELSE CheerioRatingElements)
    /\ reviewRating = Rat(0, 1)

(* extractReviews: reviews.push({ author, rating, ... }) *)
ExtractReviewRating ==
    /\ revPc = "input"
    /\ revPath = "puppeteer"
    /\ reviewRating' = ReviewRating(reviewElement)
    /\ revPc' = "extracted"
    /\ UNCHANGED <<revPath, reviewElement, productVars, linkVars, ratingRecVars,
                   stockVars, descVars, capVars, priceVars, ratingVars, runVars>>

(* scrapeWithCheerio: reviews.push({ author, rating: this.parseRating(ratingText), ... }) *)
CheerioReviewRating ==
    /\ revPc = "input"
    /\ revPath = "cheerio"
    /\ reviewRating' = parseRating(reviewElement.text)
    /\ revPc' = "extracted"
    /\ UNCHANGED <<revPath, reviewElement, productVars, linkVars, ratingRecVars,
                   stockVars, descVars, capVars, priceVars, ratingVars, runVars>>

ReviewNext == ExtractReviewRating \/ CheerioReviewRating

PageIdle == ProductIdle /\ LinksIdle /\ ReviewIdle

FieldsIdle == RatingRecIdle /\ StockIdle /\ DescriptionIdle /\ CapsIdle /\ PageIdle

-----------------------------------------------------------------------------
(* One run of a scraper script: main() -> run() -> scrape -> saveData ->     *)
(* generateReport -> process.exit.  Every await of a library call is a step  *)
(* that either resolves or rejects.                                          *)

NotExited == 0 - 1

Stats(pages, scrapedCount, errors, bytes, ended) ==
    [pages_visited |-> pages, scraped |-> scrapedCount, errors |-> errors,
     bytes_downloaded |-> bytes, ended |-> ended]

NewStats == Stats(0, 0, 0, 0, FALSE)          \* the constructor's this.stats
CatchStats == Stats(0, 0, 1, 0, FALSE)        \* the stats of run()'s catch block

Result(success, items, st) ==
    [returned |-> TRUE, success |-> success, items_scraped |-> items, stats |-> st]
NoResult ==
    [returned |-> FALSE, success |-> FALSE, items_scraped |-> 0, stats |-> NewStats]

(* What saveData was given: the record passes the schema, the product has    *)
(* reviews, and whether one of the writes threw                              *)
Saved(valid, hasReviews, thrown) ==
    [valid |-> valid, hasReviews |-> hasReviews, thrown |-> thrown]
NotSaved == Saved(TRUE, FALSE, FALSE)

File(name, index) == [name |-> name, index |-> index]
(* the files saveData writes, in the order it writes them *)
ItemFiles(n) == [i \in 1..n |-> File("item.json", i)]
ExampleFiles(n) ==
    <<File("items.json", 0)>> \o ItemFiles(n) \o <<File("items_export.csv", 0)>>
ProductFiles(hasReviews) ==
    <<File("product.json", 0), File("product.csv", 0), File("images.json", 0),
      File("variants.json", 0)>>
        \o (IF hasReviews THEN <<File("reviews.json", 0)>> ELSE <<>>)
SaveFiles(which, n, hasReviews) ==
    IF which = "example" THEN ExampleFiles(n) ELSE ProductFiles(hasReviews)
FirstFiles(fs, k) == {fs[i] : i \in 1..k}

RunIdle ==
    /\ scraper = "none"
    /\ usePuppeteer = FALSE
    /\ pc = "idle"
    /\ browser = "null"
    /\ browserProc = "none"
    /\ stats = NewStats
    /\ ret = 0
    /\ scrapeEnd = "no"
    /\ wrote = FALSE
    /\ result = NoResult
    /\ printed = FALSE
    /\ exitCode = NotExited
    /\ launchFailed = FALSE
    /\ fetchFailed = FALSE
    /\ saved = NotSaved
    /\ warned = FALSE
    /\ files = {}

(* The example scraper takes the browser path when options.headless is set,  *)
(* the product scraper always.                                               *)
RunInit ==
    /\ scraper \in {"example", "product"}
    /\ usePuppeteer \in (IF scraper = "product" THEN {TRUE} ELSE BOOLEAN)
    /\ pc = "main"
    /\ browser = "null"
    /\ browserProc = "none"
    /\ stats = NewStats
    /\ ret = 0
    /\ scrapeEnd = "no"
    /\ wrote = FALSE
    /\ result = NoResult
    /\ printed = FALSE
    /\ exitCode = NotExited
    /\ launchFailed = FALSE
    /\ fetchFailed = FALSE
    /\ saved = NotSaved
    /\ warned = FALSE
    /\ files = {}

Others == <<priceVars, ratingVars, fieldVars, saveVars>>

(* main(): load the configuration; a throw goes to main's catch: exit(1) *)
LoadConfig ==
    /\ pc = "main"
    /\ \E ok \in BOOLEAN :
          IF ok THEN /\ pc' = "construct"
                     /\ exitCode' = exitCode
                ELSE /\ pc' = "exited"
                     /\ exitCode' = 1
    /\ UNCHANGED <<scraper, usePuppeteer, browser, browserProc, stats, ret, scrapeEnd,
                   wrote, result, printed, launchFailed, fetchFailed, Others>>

(* run(): new Scraper(config, outputPaths); a throw goes to run()'s catch *)
Construct ==
    /\ pc = "construct"
    /\ \E ok \in BOOLEAN :
          pc' = IF ~ok THEN "runCatch" ELSE IF usePuppeteer THEN "launch" ELSE "get"
    /\ UNCHANGED <<scraper, usePuppeteer, browser, browserProc, stats, ret, scrapeEnd,
                   wrote, result, printed, exitCode, launchFailed, fetchFailed, Others>>

(* scrapeWithPuppeteer: this.browser = await puppeteer.launch(...) *)
Launch ==
    /\ pc = "launch"
    /\ \E ok \in BOOLEAN :
          IF ok THEN /\ browser' = "open"
                     /\ browserProc' = "running"
                     /\ pc' = "newPage"
                     /\ launchFailed' = launchFailed
                ELSE /\ UNCHANGED <<browser, browserProc>>
                     /\ pc' = "catch"
                     /\ launchFailed' = TRUE
    /\ UNCHANGED <<scraper, usePuppeteer, stats, ret, scrapeEnd, wrote, result, printed,
                   exitCode, fetchFailed, Others>>

(* scrapeWithPuppeteer: browser.newPage(), setDefaultTimeout, setUserAgent *)
NewPage ==
    /\ pc = "newPage"
    /\ \E ok \in BOOLEAN : pc' = IF ok THEN "goto" ELSE "catch"
    /\ UNCHANGED <<scraper, usePuppeteer, browser, browserProc, stats, ret, scrapeEnd,
                   wrote, result, printed, exitCode, launchFailed, fetchFailed, Others>>

(* scrapeWithPuppeteer: await page.goto(targetUrl) (product: then the        *)
(* configured waitForSelector and autoScroll); this.stats.pages_visited++    *)
Goto ==
    /\ pc = "goto"
    /\ \E ok \in BOOLEAN :
          IF ok THEN /\ stats' = [stats EXCEPT !.pages_visited = @ + 1]
                     /\ pc' = "content"
                     /\ fetchFailed' = fetchFailed
                ELSE /\ stats' = stats
                     /\ pc' = "catch"
                     /\ fetchFailed' = TRUE
    /\ UNCHANGED <<scraper, usePuppeteer, browser, browserProc, ret, scrapeEnd, wrote,
                   result, printed, exitCode, launchFailed, Others>>

(* scrapeWithPuppeteer: const content = await page.content();                *)
(* this.stats.bytes_downloaded += content.length                             *)
Content ==
    /\ pc = "content"
    /\ \/ \E n \in 0..MaxBytes :
             /\ stats' = [stats EXCEPT !.bytes_downloaded = @ + n]
             /\ pc' = "extract"
       \/ /\ stats' = stats
          /\ pc' = "catch"
    /\ UNCHANGED <<scraper, usePuppeteer, browser, browserProc, ret, scrapeEnd, wrote,
                   result, printed, exitCode, launchFailed, fetchFailed, Others>>

(* scrapeWithCheerio: const response = await axios.get(targetUrl);           *)
(* pages_visited++; bytes_downloaded += response.data.length                 *)
Get ==
    /\ pc = "get"
    /\ \/ \E n \in 0..MaxBytes :
             /\ stats' = [stats EXCEPT !.pages_visited = @ + 1,
                                       !.bytes_downloaded = @ + n]
             /\ pc' = "extract"
             /\ fetchFailed' = fetchFailed
       \/ /\ stats' = stats
          /\ pc' = "catch"
          /\ fetchFailed' = TRUE
    /\ UNCHANGED <<scraper, usePuppeteer, browser, browserProc, ret, scrapeEnd, wrote,
                   result, printed, exitCode, launchFailed, Others>>

(* The extraction and assembly of the scrape method.  Example scraper: the   *)
(* main item and the link items, then the delay.  Product scraper: the      *)
(* product; products_scraped++; return product.                             *)
Extract ==
    /\ pc = "extract"
    /\ \/ /\ scraper = "example"
          /\ \E n \in 1..MaxItems : ret' = n
          /\ pc' = "delay"
          /\ stats' = stats
       \/ /\ scraper = "product"
          /\ ret' = 1
          /\ stats' = [stats EXCEPT !.scraped = @ + 1]
          /\ pc' = "finally"
       \/ /\ ret' = ret          \* the extraction throws
          /\ stats' = stats
          /\ pc' = "catch"
    /\ UNCHANGED <<scraper, usePuppeteer, browser, browserProc, scrapeEnd, wrote, result,
                   printed, exitCode, launchFailed, fetchFailed, Others>>

(* the delay step counting one record whatever the number of items *)
DelayCountsOne ==
    /\ pc = "delay"
    /\ stats' = [stats EXCEPT !.scraped = @ + 1]
    /\ pc' = "finally"
    /\ UNCHANGED <<scraper, usePuppeteer, browser, browserProc, ret, scrapeEnd, wrote,
                   result, printed, exitCode, launchFailed, fetchFailed, Others>>

(* Example scraper: await new Promise(resolve => setTimeout(resolve, delay)); *)
(* this.stats.items_scraped += items.length; return items                    *)
Delay ==
    /\ pc = "delay"
    /\ stats' = [stats EXCEPT !.scraped = @ + ret]
    /\ pc' = "finally"
    /\ UNCHANGED <<scraper, usePuppeteer, browser, browserProc, ret, scrapeEnd, wrote,
                   result, printed, exitCode, launchFailed, fetchFailed, Others>>

(* catch (error) { this.stats.errors++; ...; return [] / return null } *)
ScrapeCatch ==
    /\ pc = "catch"
    /\ stats' = [stats EXCEPT !.errors = @ + 1]
    /\ ret' = 0
    /\ pc' = "finally"
    /\ UNCHANGED <<scraper, usePuppeteer, browser, browserProc, scrapeEnd, wrote, result,
                   printed, exitCode, launchFailed, fetchFailed, Others>>

(* finally { if (this.browser) { await this.browser.close();                 *)
(*                               this.browser = null; } }                    *)
(* scrapeWithCheerio has no finally block: it returns at once.  A close()    *)
(* that rejects leaves the assignment undone and the rejection replaces the  *)
(* return value; whether the process is gone then is not known.              *)
Finally ==
    /\ pc = "finally"
    /\ \/ /\ browser = "null"
          /\ UNCHANGED <<browser, browserProc>>
          /\ scrapeEnd' = "returned"
          /\ pc' = "save"
       \/ /\ browser = "open"
          /\ browserProc' = "closed"
          /\ browser' = "null"
          /\ scrapeEnd' = "returned"
          /\ pc' = "save"
       \/ /\ browser = "open"
          /\ browserProc' \in {"running", "closed"}
          /\ browser' = browser
          /\ scrapeEnd' = "threw"
          /\ pc' = "runCatch"
    /\ UNCHANGED <<scraper, usePuppeteer, stats, ret, wrote, result, printed, exitCode,
                   launchFailed, fetchFailed, Others>>

(* saveData with a failed validation treated as an error: nothing written *)
SaveDataStrict ==
    /\ pc = "save"
    /\ \/ /\ ret = 0
          /\ UNCHANGED <<wrote, stats, saveVars>>
       \/ /\ ret # 0
          /\ \E hasReviews \in (IF scraper = "product" THEN BOOLEAN ELSE {FALSE}) :
                /\ saved' = Saved(FALSE, hasReviews, FALSE)
                /\ warned' = TRUE
                /\ files' = {}
                /\ wrote' = wrote
                /\ stats' = [stats EXCEPT !.errors = @ + 1]
       \/ /\ ret # 0
          /\ \E hasReviews \in (IF scraper = "product" THEN BOOLEAN ELSE {FALSE}) :
                /\ saved' = Saved(TRUE, hasReviews, FALSE)
                /\ warned' = FALSE
                /\ files' = FirstFiles(SaveFiles(scraper, ret, hasReviews),
                                       Len(SaveFiles(scraper, ret, hasReviews)))
                /\ wrote' = TRUE
                /\ stats' = stats
    /\ pc' = "report"
    /\ UNCHANGED <<scraper, usePuppeteer, browser, browserProc, ret, scrapeEnd, result,
                   printed, exitCode, launchFailed, fetchFailed,
                   priceVars, ratingVars, fieldVars>>

(* saveData: nothing to save -> return; else validate (a failure is logged   *)
(* as a warning), then write the files in order; a throw of a write is       *)
(* caught inside: this.stats.errors++                                        *)
SaveData ==
    /\ pc = "save"
    /\ \/ /\ ret = 0
          /\ UNCHANGED <<wrote, stats, saveVars>>
       \/ /\ ret # 0
          /\ \E valid \in BOOLEAN,
                hasReviews \in (IF scraper = "product" THEN BOOLEAN ELSE {FALSE}) :
                /\ saved' = Saved(valid, hasReviews, FALSE)
                /\ warned' = ~valid
                /\ files' = FirstFiles(SaveFiles(scraper, ret, hasReviews),
                                       Len(SaveFiles(scraper, ret, hasReviews)))
                /\ wrote' = TRUE
                /\ stats' = stats
       \/ /\ ret # 0
          /\ \E valid \in BOOLEAN,
                hasReviews \in (IF scraper = "product" THEN BOOLEAN ELSE {FALSE}) :
                \E k \in 0..(Len(SaveFiles(scraper, ret, hasReviews)) - 1) :
                    /\ saved' = Saved(valid, hasReviews, TRUE)
                    /\ warned' = ~valid
                    /\ files' = FirstFiles(SaveFiles(scraper, ret, hasReviews), k)
                    /\ wrote' = wrote
                    /\ stats' = [stats EXCEPT !.errors = @ + 1]
    /\ pc' = "report"
    /\ UNCHANGED <<scraper, usePuppeteer, browser, browserProc, ret, scrapeEnd, result,
                   printed, exitCode, launchFailed, fetchFailed,
                   priceVars, ratingVars, fieldVars>>

(* generateReport whose failed write sends the run back to saveData *)
GenerateReportRetry ==
    /\ pc = "report"
    /\ stats' = [stats EXCEPT !.ended = TRUE]
    /\ \/ /\ result' = Result(IF scraper = "example" THEN TRUE ELSE ret # 0, ret, stats')
          /\ pc' = "print"
       \/ /\ result' = result
          /\ pc' = "save"
    /\ UNCHANGED <<scraper, usePuppeteer, browser, browserProc, ret, scrapeEnd, wrote,
                   printed, exitCode, launchFailed, fetchFailed, Others>>

(* run()'s result: example success: true, items_scraped: items.length;       *)
(* product success: product !== null, items_scraped: product ? 1 : 0         *)
RunResult(st) ==
    Result(IF scraper = "example" THEN TRUE ELSE ret # 0, ret, st)

(* generateReport: end_time and elapsed_seconds, write report.json, return   *)
(* this.stats; then run() returns its result.  A throw of writeFileSync goes *)
(* to run()'s catch.                                                         *)
GenerateReport ==
    /\ pc = "report"
    /\ stats' = [stats EXCEPT !.ended = TRUE]
    /\ \/ /\ result' = RunResult(stats')
          /\ pc' = "print"
       \/ /\ result' = result
          /\ pc' = "runCatch"
    /\ UNCHANGED <<scraper, usePuppeteer, browser, browserProc, ret, scrapeEnd, wrote,
                   printed, exitCode, launchFailed, fetchFailed, Others>>

(* run(): catch (error) { ...; return { success: false, items_scraped: 0,    *)
(*                                       stats: {..., errors: 1, ...} } }    *)
RunCatch ==
    /\ pc = "runCatch"
    /\ result' = Result(FALSE, 0, CatchStats)
    /\ pc' = "print"
    /\ UNCHANGED <<scraper, usePuppeteer, browser, browserProc, stats, ret, scrapeEnd,
                   wrote, printed, exitCode, launchFailed, fetchFailed, Others>>

(* main(): console.log(JSON.stringify(result, null, 2)) *)
PrintResult ==
    /\ pc = "print"
    /\ printed' = TRUE
    /\ pc' = "exit"
    /\ UNCHANGED <<scraper, usePuppeteer, browser, browserProc, stats, ret, scrapeEnd,
                   wrote, result, exitCode, launchFailed, fetchFailed, Others>>

(* main(): process.exit(result.success ? 0 : 1) *)
Exit ==
    /\ pc = "exit"
    /\ exitCode' = IF result.success THEN 0 ELSE 1
    /\ pc' = "exited"
    /\ UNCHANGED <<scraper, usePuppeteer, browser, browserProc, stats, ret, scrapeEnd,
                   wrote, result, printed, launchFailed, fetchFailed, Others>>

RunNext ==
    \/ LoadConfig \/ Construct \/ Launch \/ NewPage \/ Goto \/ Content \/ Get
    \/ Extract \/ Delay \/ ScrapeCatch \/ Finally \/ SaveData \/ GenerateReport
    \/ RunCatch \/ PrintResult \/ Exit

InitRun == RunInit /\ PriceIdle /\ RatingIdle /\ FieldsIdle
SpecRun == InitRun /\ [][RunNext]_vars

InitPrice == PriceInit /\ RatingIdle /\ RunIdle /\ FieldsIdle
SpecPrice == InitPrice /\ [][PriceNext]_vars

InitRating == RatingInit /\ PriceIdle /\ RunIdle /\ FieldsIdle
SpecRating == InitRating /\ [][RatingNext]_vars

InitRatingRecord ==
    RatingRecInit /\ StockIdle /\ DescriptionIdle /\ CapsIdle /\ PageIdle /\ PriceIdle
        /\ RatingIdle /\ RunIdle
SpecRatingRecord == InitRatingRecord /\ [][RatingRecNext]_vars

InitStock ==
    StockInit /\ RatingRecIdle /\ DescriptionIdle /\ CapsIdle /\ PageIdle /\ PriceIdle
        /\ RatingIdle /\ RunIdle
SpecStock == InitStock /\ [][StockNext]_vars

InitDescription ==
    DescriptionInit /\ RatingRecIdle /\ StockIdle /\ CapsIdle /\ PageIdle /\ PriceIdle
        /\ RatingIdle /\ RunIdle
SpecDescription == InitDescription /\ [][DescriptionNext]_vars

InitCaps ==
    CapsInit /\ RatingRecIdle /\ StockIdle /\ DescriptionIdle /\ PageIdle /\ PriceIdle
        /\ RatingIdle /\ RunIdle
SpecCaps == InitCaps /\ [][CapsNext]_vars

InitProduct ==
    ProductInit /\ LinksIdle /\ ReviewIdle /\ RatingRecIdle /\ StockIdle /\ DescriptionIdle
        /\ CapsIdle /\ PriceIdle /\ RatingIdle /\ RunIdle
SpecProduct == InitProduct /\ [][ProductNext]_vars

InitLinks ==
    LinksInit /\ ProductIdle /\ ReviewIdle /\ RatingRecIdle /\ StockIdle /\ DescriptionIdle
        /\ CapsIdle /\ PriceIdle /\ RatingIdle /\ RunIdle
SpecLinks == InitLinks /\ [][LinksNext]_vars

InitReview ==
    ReviewInit /\ ProductIdle /\ LinksIdle /\ RatingRecIdle /\ StockIdle /\ DescriptionIdle
        /\ CapsIdle /\ PriceIdle /\ RatingIdle /\ RunIdle
SpecReview == InitReview /\ [][ReviewNext]_vars

-----------------------------------------------------------------------------
(* Vocabulary of the statements about parsePrice *)

HasDigit(s) == \E i \in 1..Len(s) : s[i] \in Digit
HasPriceSymbol(s) == \E i \in 1..Len(s) : s[i] \in PriceSymbol

(* Start positions of the currency-symbol+amount tokens of s *)
TokenStarts(s) == {i \in 1..Len(s) : TokenAt(s, i).ok /\ HasDigit(TokenAt(s, i).num)}
TokenValue(s, i) == parseFloatCents(TokenAt(s, i).num)
IsToken(s) == s # <<>> /\ TokenStarts(s) = {1} /\ TokenAt(s, 1).end = Len(s)

(* The first numeric token of s: the first run of [0-9,] that holds a digit, *)
(* with its two decimals when it has them                                    *)
NumberStarts(s) ==
    {i \in 1..Len(s) :
        /\ s[i] \in NumChar
        /\ (i = 1 \/ s[i - 1] \notin NumChar)
        /\ HasDigit(SubSeq(s, i, RunEnd(s, i, NumChar)))}
FirstNumberStart(s) == CHOOSE i \in NumberStarts(s) : \A j \in NumberStarts(s) : i <= j
FirstNumericToken(s) == SubSeq(s, FirstNumberStart(s), NumberEnd(s, FirstNumberStart(s)))

Min(a, b) == IF a <= b THEN a ELSE b
Max(a, b) == IF a >= b THEN a ELSE b

(* C3: a price text with two currency-symbol+amount tokens of values v1 and  *)
(* v2 gives amount = min(v1,v2), originalAmount = max(v1,v2) and             *)
(* discountPercentage = round((max-min)/max*100), for any symbols.           *)
C3_TwoTokensMinMax ==
    (pricePc \in {"parsed", "reparsed"} /\ Cardinality(TokenStarts(priceText)) = 2) =>
        LET i1 == CHOOSE i \in TokenStarts(priceText) : \A j \in TokenStarts(priceText) : i <= j
            i2 == CHOOSE i \in TokenStarts(priceText) : \A j \in TokenStarts(priceText) : i >= j
            v1 == TokenValue(priceText, i1)
            v2 == TokenValue(priceText, i2)
        IN /\ price.amount = Min(v1, v2)
           /\ price.originalAmount = Max(v1, v2)
           /\ Max(v1, v2) > 0 =>
                 price.discountPercentage = DiscountPercentage(Max(v1, v2), Min(v1, v2))

(* C4: a price text with exactly one currency-symbol+amount token gives the  *)
(* value of that token as amount, the ISO code of its symbol as currency,    *)
(* and discounted = false.                                                   *)
C4_OneToken ==
    (pricePc \in {"parsed", "reparsed"} /\ Cardinality(TokenStarts(priceText)) = 1) =>
        LET i == CHOOSE i \in TokenStarts(priceText) : TRUE
        IN /\ price.amount = TokenValue(priceText, i)
           /\ price.currency = getCurrencyCode(priceText[i])
           /\ price.discounted = FALSE

(* C5: a discounted Price that has both amounts has originalAmount > amount, *)
(* strictly.                                                                 *)
C5_DiscountedStrict ==
    (/\ pricePc \in {"parsed", "reparsed"}
     /\ price.discounted
     /\ price.originalAmount \notin {Undefined, NaN}
     /\ price.amount # NaN) =>
        price.originalAmount > price.amount

(* C6: a price text without any numeric token gives amount 0, discounted =   *)
(* false and the input text as formatted.                                    *)
C6_NoNumber ==
    (pricePc \in {"parsed", "reparsed"} /\ ~HasDigit(priceText)) =>
        /\ price.amount = 0
        /\ price.discounted = FALSE
        /\ price.formatted = priceText

(* C7: a price text without currency symbol but with a numeric token gives   *)
(* the first numeric token as amount, that token prefixed with the hint (or  *)
(* with "$" when there is no hint) as formatted, and discounted = false.     *)
C7_NoSymbol ==
    (pricePc \in {"parsed", "reparsed"} /\ ~HasPriceSymbol(priceText) /\ HasDigit(priceText)) =>
        /\ price.amount = parseFloatCents(FirstNumericToken(priceText))
        /\ price.formatted = Or(currencySymbol, <<"$">>) \o FirstNumericToken(priceText)
        /\ price.discounted = FALSE

(* C8: parsing the formatted field of a result again, with the same hint,    *)
(* gives the same amount and the same currency.                              *)
C8_Idempotent ==
    pricePc = "reparsed" =>
        /\ reparsed.amount = price.amount
        /\ reparsed.currency = price.currency

(* C9: for two tokens A and B, "A B" and "B A" give the same amount,         *)
(* originalAmount and discountPercentage, the larger value being the         *)
(* originalAmount.                                                           *)
C9_OrderIndependent ==
    pricePc \in {"parsed", "reparsed"} =>
        \A k \in 2..(Len(priceText) - 1) :
            LET A == SubSeq(priceText, 1, k - 1)
                B == SubSeq(priceText, k + 1, Len(priceText))
                swapped == parsePrice(B \o <<" ">> \o A, currencySymbol)
            IN (priceText[k] = " " /\ IsToken(A) /\ IsToken(B)) =>
                  /\ swapped.amount = price.amount
                  /\ swapped.originalAmount = price.originalAmount
                  /\ swapped.discountPercentage = price.discountPercentage
                  /\ price.originalAmount = Max(TokenValue(A, 1), TokenValue(B, 1))

(* C10: for every rating text parseRating returns r with 0 <= r <= 5.        *)
C10_RatingInRange ==
    ratingPc = "parsed" => (0 <= rating.num /\ rating.num <= 5 * rating.den)

(* C1: a run whose fetch (page.goto / axios.get) or browser launch failed    *)
(* returns success = false and exits with a non-zero code, in both scrapers. *)
C1_FetchFailureExitsNonZero ==
    (pc = "exited" /\ (fetchFailed \/ launchFailed)) =>
        (result.returned /\ result.success = FALSE /\ exitCode # 0)

(* C2: when scrapeWithPuppeteer has finished, by returning or by throwing,   *)
(* the browser of the run is closed and this.browser is null.                *)
C2_BrowserReleased ==
    (usePuppeteer /\ scrapeEnd # "no") =>
        (browser = "null" /\ browserProc # "running")

-----------------------------------------------------------------------------
(* Vocabulary of the statements about parseRating *)

RECURSIVE Pow10(_)
Pow10(n) == IF n = 0 THEN 1 ELSE 10 * Pow10(n - 1)

RatEq(a, b) == a.num * b.den = b.num * a.den

AllDigits(s) == \A i \in 1..Len(s) : s[i] \in Digit

(* A plain numeric literal: one digit, optionally "." and a decimal part *)
IsPlainLiteral(s) ==
    /\ s # <<>>
    /\ s[1] \in Digit
    /\ Len(s) > 1 => (Len(s) >= 3 /\ s[2] = "." /\ AllDigits(SubSeq(s, 3, Len(s))))
LiteralValue(s) ==
    IF Len(s) = 1 THEN Rat(DigitVal(s[1]), 1)
    ELSE Rat(DigitVal(s[1]) * Pow10(Len(s) - 2) + DigitsValue(SubSeq(s, 3, Len(s))),
             Pow10(Len(s) - 2))
InZeroToFive(r) == 0 <= r.num /\ r.num <= 5 * r.den

(* C11: for a rating text that is a plain numeric literal in [0,5] (one      *)
(* digit 0-5, optionally followed by a decimal part) parseRating returns     *)
(* exactly the value of the literal.                                        *)
C11_LiteralExact ==
    (ratingPc = "parsed" /\ IsPlainLiteral(ratingText)
        /\ InZeroToFive(LiteralValue(ratingText))) =>
        RatEq(rating, LiteralValue(ratingText))

(* The three rules of the rating contract, stated on the text *)
HasNumericLiteral(s) ==
    \E i \in 1..Len(s) :
        \/ s[i] \in {"0", "1", "2", "3", "4", "5"}
        \/ (i + 2 <= Len(s) /\ s[i] \in Digit /\ s[i + 1] = "." /\ s[i + 2] \in Digit)
LiteralAt(s, i) ==
    IF i + 2 <= Len(s) /\ s[i] \in Digit /\ s[i + 1] = "." /\ s[i + 2] \in Digit
    THEN <<TRUE, Rat(10 * DigitVal(s[i]) + DigitVal(s[i + 2]), 10)>>
    ELSE IF s[i] \in {"0", "1", "2", "3", "4", "5"}
         THEN <<TRUE, Rat(DigitVal(s[i]), 1)>>
         ELSE <<FALSE, Rat(0, 1)>>
FirstLiteralValue(s) ==
    LET i == CHOOSE k \in 1..Len(s) :
                 LiteralAt(s, k)[1] /\ \A j \in 1..(k - 1) : ~LiteralAt(s, j)[1]
    IN LiteralAt(s, i)[2]

FilledCount(s) == Cardinality({i \in 1..Len(s) : s[i] \in {"star", "*"}})
EmptyCount(s) == Cardinality({i \in 1..Len(s) : s[i] \in {"ostar", "-"}})
HasGlyph(s) == FilledCount(s) + EmptyCount(s) > 0
GlyphValue(s) == Rat(5 * FilledCount(s), FilledCount(s) + EmptyCount(s))

PercentSigns(s) == {k \in 2..Len(s) : s[k] = "%" /\ s[k - 1] \in Digit}
HasPercentToken(s) == PercentSigns(s) # {}
PercentNumber(s) ==
    LET k == CHOOSE k \in PercentSigns(s) : \A m \in PercentSigns(s) : k <= m
        j == CHOOSE j \in 1..(k - 1) :
                 /\ AllDigits(SubSeq(s, j, k - 1))
                 /\ (j = 1 \/ s[j - 1] \notin Digit)
    IN DigitsValue(SubSeq(s, j, k - 1))
(* round(percent / 20 * 100) / 100 *)
PercentRuleValue(s) == Rat(5 * PercentNumber(s), 100)

GlyphOnly(s) == s # <<>> /\ \A i \in 1..Len(s) : s[i] \in {"star", "*", "ostar", "-"}

(* C13: for a glyph-only rating text with f filled markers (star, asterisk)  *)
(* and e empty markers (open star, hyphen), f + e > 0, parseRating returns   *)
(* f / (f + e) * 5; the text of three stars and two open stars yields 3.     *)
C13_GlyphRating ==
    (ratingPc = "parsed" /\ GlyphOnly(ratingText)) =>
        /\ rating.num * (FilledCount(ratingText) + EmptyCount(ratingText))
               = 5 * FilledCount(ratingText) * rating.den
        /\ ratingText = <<"star", "star", "star", "ostar", "ostar">> => RatEq(rating, Rat(3, 1))

(* C13 witness: the text of three stars and two open stars has been parsed *)
C13_Witness ==
    /\ ratingPc = "parsed"
    /\ ratingText = <<"star", "star", "star", "ostar", "ostar">>
    /\ RatEq(rating, Rat(3, 1))

(* C14: in every product record assembled by either fetch path              *)
(* rating.average lies in [0,5] and rating.count >= 0, whatever the rating   *)
(* text or data-rating/content attribute of the page.                        *)
C14_RecordRatingInRange ==
    rrPc = "extracted" =>
        /\ ~IsRatNaN(ratingData.average)
        /\ 0 <= ratingData.average.num
        /\ ratingData.average.num <= 5 * ratingData.average.den
        /\ ratingData.count >= 0

-----------------------------------------------------------------------------
(* Vocabulary of the statements about the stock normalizers *)

SameLetter(a, b) == LowerChar(a) = LowerChar(b)
(* phrase p stands in s at position i, letter case ignored *)
PhraseAt(s, i, p) ==
    /\ i >= 1
    /\ i + Len(p) - 1 <= Len(s)
    /\ \A k \in 1..Len(p) : SameLetter(s[i + k - 1], p[k])
ContainsPhrase(s, p) == \E i \in 1..Len(s) : PhraseAt(s, i, p)
ContainsOneOf(s, phrases) == \E k \in 1..Len(phrases) : ContainsPhrase(s, phrases[k])

SignalsOutOfStock(s) == ContainsOneOf(s, outOfStockIndicators)
SignalsInStock(s) == ContainsOneOf(s, inStockIndicators)
SignalsLowStock(s) ==
    ContainsOneOf(s, << <<"l", "o", "w", " ", "s", "t", "o", "c", "k">>,
                        <<"s", "e", "l", "l", "i", "n", "g", " ", "f", "a", "s", "t">> >>)

(* "<N> left|available|in stock|item": a number, optional white space, a word *)
NumberBefore(s, j) == {i \in 1..j : AllDigits(SubSeq(s, i, j))}
LevelWordAt(s, i) == \E k \in 1..Len(LevelWords) : PhraseAt(s, i, LevelWords[k])
LevelPatternEnds(s) ==
    {j \in 1..Len(s) :
        /\ s[j] \in Digit
        /\ (j = Len(s) \/ s[j + 1] \notin Digit)
        /\ \E w \in (j + 1)..Len(s) :
              /\ \A k \in (j + 1)..(w - 1) : s[k] \in Whitespace
              /\ LevelWordAt(s, w)}
HasLevelPattern(s) == LevelPatternEnds(s) # {}
LevelPatternNumber(s) ==
    LET j == CHOOSE j \in LevelPatternEnds(s) : \A m \in LevelPatternEnds(s) : j <= m
        i == CHOOSE i \in NumberBefore(s, j) : \A m \in NumberBefore(s, j) : i <= m
    IN DigitsValue(SubSeq(s, i, j))

(* C15: parseStockStatus ignores letter case and checks the out-of-stock     *)
(* phrases first: false whenever the text contains an out-of-stock phrase,   *)
(* also when it contains an in-stock phrase as well ("unavailable" contains  *)
(* "available"), and true in every other case, empty text included.          *)
C15_StockStatus ==
    stockPc \in {"status", "level"} => (inStock = ~SignalsOutOfStock(stockText))

(* C15 witness: a text with an out-of-stock and an in-stock phrase, found    *)
(* out of stock                                                              *)
C15_Witness ==
    /\ stockPc = "status"
    /\ SignalsOutOfStock(stockText) /\ SignalsInStock(stockText)
    /\ inStock = FALSE

(* C16: parseStockLevel applies its rules in order: the number N of a        *)
(* "<N> left|available|in stock|item" pattern; else LOW for "low stock" or   *)
(* "selling fast"; else 0 when the text signals out-of-stock; else absent.   *)
(* "Only 3 left in stock" gives inStock = true and stockLevel = 3.           *)
C16_StockLevelRules ==
    stockPc = "level" =>
        /\ stockLevel =
              IF stockText # <<>> /\ HasLevelPattern(stockText)
              THEN StockLevel("number", LevelPatternNumber(stockText))
              ELSE IF SignalsLowStock(stockText) THEN LOW
              ELSE IF SignalsOutOfStock(stockText) THEN StockLevel("number", 0)
              ELSE NoStockLevel
        /\ stockText = <<"O", "n", "l", "y", " ", "3", " ", "l", "e", "f", "t", " ", "i", "n", " ", "s", "t", "o", "c", "k">>
              => (inStock /\ stockLevel = StockLevel("number", 3))

(* C17: a stock text that signals out-of-stock (parseStockStatus returns     *)
(* false) and matches neither the numeric pattern nor a low-stock phrase     *)
(* gives stockLevel 0; "Sold Out" gives inStock = false and stockLevel = 0.  *)
C17_OutOfStockLevelZero ==
    (stockPc = "level" /\ inStock = FALSE
        /\ ~HasLevelPattern(stockText) /\ ~SignalsLowStock(stockText)) =>
        stockLevel = StockLevel("number", 0)

-----------------------------------------------------------------------------
(* C18: in both scrapers a description longer than 200 characters is stored  *)
(* as its first 200 characters followed by "..." (203 characters), and a     *)
(* description of at most 200 characters is stored unchanged.                *)
C18_Truncation ==
    descPc = "stored" =>
        IF Len(description) > 200
        THEN /\ Len(stored) = 203
             /\ SubSeq(stored, 1, 200) = SubSeq(description, 1, 200)
             /\ SubSeq(stored, 201, 203) = <<".", ".", ".">>
        ELSE stored = description

-----------------------------------------------------------------------------
(* C19: in every assembled product the number of images is at most the       *)
(* configured options.maxImages and the number of reviews at most the        *)
(* configured options.maxReviews, for every configured value including 0;    *)
(* the defaults (10 images, 5 reviews) apply only when nothing is configured *)
C19_ConfiguredMaxima ==
    capPc = "assembled" =>
        /\ images <= (IF maxImagesOption = Undefined THEN 10 ELSE maxImagesOption)
        /\ reviews <= (IF maxReviewsOption = Undefined THEN 5 ELSE maxReviewsOption)

-----------------------------------------------------------------------------
(* C20: in saveData of both scrapers a record that fails schema validation   *)
(* is still written: the failure only logs a warning, does not increment     *)
(* the error counter, and the same data files (items.json / product.json     *)
(* and the exports) are written as for a valid record.                       *)
C20_InvalidStillWritten ==
    [][(pc = "save" /\ ret # 0 /\ ~saved'.valid) =>
          /\ warned'
          /\ ~saved'.thrown =>
                /\ stats'.errors = stats.errors
                /\ files' = IF scraper = "example"
                            THEN {File("items.json", 0), File("items_export.csv", 0)}
                                     \cup {File("item.json", i) : i \in 1..ret}
                            ELSE {File("product.json", 0), File("product.csv", 0),
                                  File("images.json", 0), File("variants.json", 0)}
                                     \cup (IF saved'.hasReviews
                                           THEN {File("reviews.json", 0)} ELSE {})]_vars

(* C20 witness: an invalid record has been saved without a write error, in   *)
(* the product scraper                                                       *)
C20_Witness ==
    /\ pc = "report"
    /\ scraper = "product"
    /\ ~saved.valid /\ ~saved.thrown
    /\ warned
    /\ File("product.json", 0) \in files
    /\ stats.errors = 0

-----------------------------------------------------------------------------
(* Vocabulary of the statements about the steps and the statistics of a run *)

CounterFields == {"pages_visited", "scraped", "errors", "bytes_downloaded"}
NotLower(a, b) == \A f \in CounterFields : a[f] >= b[f]

(* the steps of a run in the order of the pipeline *)
StepOrder ==
    <<"main", "construct", "launch", "newPage", "goto", "content", "get", "extract",
      "delay", "catch", "finally", "save", "report", "runCatch", "print", "exit",
      "exited">>
StepRank(p) == CHOOSE i \in 1..Len(StepOrder) : StepOrder[i] = p

(* C21: within one run no statistics counter ever decreases, from the        *)
(* constructor up to the stats object returned in the result of run(), and   *)
(* end_time / elapsed_seconds are set exactly once, by generateReport, after *)
(* every counter update.                                                     *)
C21_CountersMonotone ==
    [][/\ NotLower(stats', stats)
       /\ (stats'.ended # stats.ended) => (pc = "report" /\ ~stats.ended)
       /\ stats.ended => stats' = stats
       /\ (result'.returned /\ ~result.returned) => NotLower(result'.stats, stats')]_vars

C24_DelayBeforeReturn ==
    [][(pc' = "finally" /\ ret' # 0) => pc = "delay"]_vars

(* C25: every exit of the process comes after the result JSON has been       *)
(* printed, with exit code 0 exactly when the result has success = true and  *)
(* 1 otherwise, the exit after a failed configuration load included.         *)
C25_PrintedBeforeExit ==
    pc = "exited" =>
        /\ printed
        /\ exitCode \in {0, 1}
        /\ (exitCode = 0) <=> (result.returned /\ result.success)

(* C27: in every result returned by run() items_scraped equals the scraped   *)
(* counter of the result's stats, and pages_visited = 0 in those stats       *)
(* implies that the counter and bytes_downloaded are 0.                      *)
C27_ResultAgreesWithStats ==
    result.returned =>
        /\ result.items_scraped = result.stats.scraped
        /\ result.stats.pages_visited = 0 =>
              (result.stats.scraped = 0 /\ result.stats.bytes_downloaded = 0)

(* C27 witness: the example scraper has returned two items from a loaded page *)
C27_Witness ==
    /\ result.returned
    /\ scraper = "example"
    /\ result.items_scraped = 2
    /\ result.stats.scraped = 2
    /\ result.stats.pages_visited = 1

-----------------------------------------------------------------------------
(* C28: whenever parsePrice returns discounted = true the result also has    *)
(* originalAmount and originalFormatted, for every price text.               *)
C28_DiscountedHasOriginal ==
    (pricePc \in {"parsed", "reparsed"} /\ price.discounted) =>
        /\ price.originalAmount # Undefined
        /\ price.originalFormatted # UndefinedStr

-----------------------------------------------------------------------------
(* C29: the two stock normalizers agree on every stock text: when            *)
(* parseStockStatus returns false parseStockLevel returns 0 or nothing,      *)
(* never a positive number or "LOW"; when parseStockLevel returns 0          *)
(* parseStockStatus returns false.                                           *)
C29_StockNormalizersAgree ==
    stockPc = "level" =>
        /\ inStock = FALSE => stockLevel \in {StockLevel("number", 0), NoStockLevel}
        /\ stockLevel = StockLevel("number", 0) => inStock = FALSE

-----------------------------------------------------------------------------
(* C23: in the product scraper a field-level failure never aborts the run:   *)
(* the product is assembled with the default of the field that failed: a     *)
(* title or sku selector that matches nothing or whose extraction throws     *)
(* gives "Unknown Product" / "UNKNOWN", a list extraction that throws gives  *)
(* the empty list, a price text without a number gives amount 0, a rating    *)
(* that cannot be read gives rating 0 (no review carrying a rating), a stock *)
(* text without any stock phrase gives inStock = true.                       *)
C23_FieldFailureDefaults ==
    prodPc = "assembled" =>
        /\ pageFields.title.kind # "text" => product.title = UnknownProduct
        /\ pageFields.sku.kind # "text" => product.sku = UNKNOWN
        /\ ~pageFields.images.evaluated => product.images = 0
        /\ ~pageFields.variants.evaluated => product.variants = 0
        /\ ~pageFields.reviews.evaluated => product.reviews = 0
        /\ ~pageFields.relatedProducts.evaluated => product.relatedProducts = 0
        /\ (pageFields.price.kind # "text" \/ ~HasDigit(pageFields.price.text)) =>
              product.price.amount = 0
        /\ ((~pageFields.rating.evaluated \/ ~pageFields.rating.hasElement
                \/ ~HasDigit(pageFields.rating.text))
              /\ product.reviews = 0) =>
              (~IsRatNaN(product.rating.average) /\ product.rating.average.num = 0)
        /\ (pageFields.stock.kind # "text"
              \/ ~(SignalsOutOfStock(pageFields.stock.text)
                     \/ SignalsInStock(pageFields.stock.text))) =>
              product.inStock = TRUE

-----------------------------------------------------------------------------
(* Vocabulary of the statement about the items of the example scraper *)

RECURSIVE IsSubsequence(_, _)
IsSubsequence(s, t) ==
    IF s = <<>> THEN TRUE
    ELSE IF t = <<>> THEN FALSE
    ELSE IF Head(s) = Head(t) THEN IsSubsequence(Tail(s), Tail(t))
    ELSE IsSubsequence(s, Tail(t))

EmptyOrFragment(href) == href = <<>> \/ (href # <<>> /\ Head(href) = "#")
UsableHref(href) == href # NoHref /\ ~EmptyOrFragment(href)
EffectiveMaxLinks == IF maxLinksOption \in {Undefined, 0} THEN 5 ELSE maxLinksOption
UrlsOf(hrefs) == [i \in 1..Len(hrefs) |-> LinkUrl(hrefs[i])]
LinkUrlsOf(its) == [i \in 1..(Len(its) - 1) |-> its[i + 1].url]

-----------------------------------------------------------------------------
(* C30: every review of an assembled product has a rating r with             *)
(* 0 <= r <= 5, on the browser path and on the HTTP path.                    *)
C30_ReviewRatingInRange ==
    revPc = "extracted" =>
        /\ ~IsRatNaN(reviewRating)
        /\ 0 <= reviewRating.num
        /\ reviewRating.num <= 5 * reviewRating.den

====
